---- MODULE Spec2Model ----
(***************************************************************************)
(* consul-replicate: the Runner event loop (Runner.Start), one replication *)
(* pass (Runner.Run, Runner.replicate) and the Status Record checkpoint,   *)
(* modelled from runner.go.  Keys, prefixes and datacenters are strings;   *)
(* Len, \o and SubSeq are applied to them as Go applies len, + and slices. *)
(***************************************************************************)
EXTENDS Naturals, Sequences, FiniteSets, TLC

VARIABLES
    config,      \* r.config: prefixes, excludes, statusDir, wait (fixed after Init)
    once,        \* r.once
    env,         \* what the source's writers and the destination's operators do (fixed)
    srcKV,       \* source datacenter: path -> [ModifyIndex, Payload] (ModifyIndex 0: absent)
    srcIndex,    \* source datacenter: the KV store's index
    dstKV,       \* destination datacenter: set of [Key, Value, Flags] (replicated keys)
    statusKV,    \* destination datacenter: statusPath -> [present, valid, LastReplicated, ...]
    view,        \* per prefix: the poller's *watch.View (Data, LastIndex)
    dataCh,      \* r.watcher.DataCh(): the views published and not yet received
    watchErr,    \* r.watcher.ErrCh(): TRUE when the watcher has an error to report
    data,        \* r.data: the prefixes a View has been received for
    pc,          \* where Runner.Start is
    onceCount,   \* the i of the once-mode loop of Runner.Start
    onceCh,      \* onceCh (buffered, 1)
    minTimer,    \* r.minTimer: NoTimer (nil) or the time it fires
    maxTimer,    \* r.maxTimer
    now,         \* the clock
    rp,          \* per prefix: the replicate goroutine of the current Run
    errCh,       \* what Start has sent on r.ErrCh, in order
    doneCh,      \* "open", "signalled" (Start sent on r.DoneCh) or "closed" (Stop)
    hist,        \* history of the current Run and of the loop (not program state)
    lock,        \* v0.1: the session that holds the key r.conf.Lock (NoSession: none)
    sessions,    \* v0.1: the sessions of the local datacenter that are not invalidated
    replicators  \* v0.1: per instance, where Replicator.run is and its locals

\* the state of the lock-based Replicator of v0.1
legacyVars == <<lock, sessions, replicators>>

vars == <<config, once, env, srcKV, srcIndex, dstKV, statusKV, view, dataCh, watchErr,
          data, pc, onceCount, onceCh, minTimer, maxTimer, now, rp, errCh, doneCh, hist,
          legacyVars>>

--------------------------------------------------------------------------
(* Bounds *)

\* v0.1: the instances create at most MaxSessions sessions between them
MaxSessions == 2

\* the source index never exceeds MaxIndex (bounds the number of source changes)
MaxIndex == 2
\* the clock stops at MaxTime
MaxTime == 5
\* the failed polls in a row of one poller
MaxRetries == 3

--------------------------------------------------------------------------
(* Go's strings package *)

HasPrefix(s, p) == Len(p) <= Len(s) /\ SubSeq(s, 1, Len(p)) = p

TrimPrefix(s, p) == IF HasPrefix(s, p) THEN SubSeq(s, Len(p) + 1, Len(s)) ELSE s

\* strings.Contains
Contains(s, substr) ==
    \/ substr = ""
    \/ \E n \in 1..Len(s) :
           n + Len(substr) - 1 <= Len(s) /\ SubSeq(s, n, n + Len(substr) - 1) = substr

RECURSIVE TrimRight(_, _)
TrimRight(s, c) ==
    IF Len(s) > 0 /\ SubSeq(s, Len(s), Len(s)) = c
    THEN TrimRight(SubSeq(s, 1, Len(s) - 1), c)
    ELSE s

\* strings.Replace(s, old, new, -1): every non-overlapping occurrence, left to
\* right; an empty old matches before every character and at the end.
RECURSIVE Replace(_, _, _)
Replace(s, old, new) ==
    IF old = ""
    THEN IF s = "" THEN new
         ELSE new \o SubSeq(s, 1, 1) \o Replace(SubSeq(s, 2, Len(s)), old, new)
    ELSE IF Len(s) < Len(old) THEN s
    ELSE IF HasPrefix(s, old)
         THEN new \o Replace(SubSeq(s, Len(old) + 1, Len(s)), old, new)
         ELSE SubSeq(s, 1, 1) \o Replace(SubSeq(s, 2, Len(s)), old, new)

--------------------------------------------------------------------------
(* Sequences *)

Range(f) == {f[i] : i \in DOMAIN f}

RECURSIVE SelectKeys(_, _)
\* the elements of the sequence order that are in the set keep, in order
SelectKeys(order, keep) ==
    IF order = <<>> THEN <<>>
    ELSE IF Head(order) \in keep
         THEN <<Head(order)>> \o SelectKeys(Tail(order), keep)
         ELSE SelectKeys(Tail(order), keep)

--------------------------------------------------------------------------
(* Configuration *)

\* the datacenter of the local agent (the destination)
LocalDatacenter == "dc2"

DefaultStatusDir == "service/consul-replicate/statuses"

Prefix(source, dc, destination) ==
    [Source |-> source, Datacenter |-> dc, Destination |-> destination]

Config(prefixes, excludes, statusDir, min, max) ==
    [Prefixes |-> prefixes, Excludes |-> excludes, ExcludeMatches |-> <<>>,
     StatusDir |-> statusDir, WaitMin |-> min, WaitMax |-> max]

\* global@dc1:backup
PrefixBackup == Prefix("global", "dc1", "backup")
\* global@dc1 (the destination defaults to the source)
PrefixSame == Prefix("global", "dc1", "global")
\* global@dc2: the source datacenter is the local one
PrefixSelf == Prefix("global", LocalDatacenter, "backup")

\* the configurations of the replication scenarios (quiescence off: -wait 0)
ReplConfigs ==
    { Config(<<PrefixBackup>>, <<>>, DefaultStatusDir, 0, 0),
      Config(<<PrefixBackup>>, <<"global/backup">>, DefaultStatusDir, 0, 0),
      Config(<<PrefixSame>>, <<"global/backup">>, DefaultStatusDir, 0, 0),
      Config(<<PrefixBackup>>, <<>>, "backup/replicate/", 0, 0),
      Config(<<PrefixSelf>>, <<>>, DefaultStatusDir, 0, 0) }

\* strings.Index for a one-character substring: its first position, 0 when
\* there is none
Index(s, c) ==
    IF \E n \in 1..Len(s) : SubSeq(s, n, n) = c
    THEN CHOOSE n \in 1..Len(s) :
             /\ SubSeq(s, n, n) = c
             /\ \A k \in 1..(n - 1) : SubSeq(s, k, k) # c
    ELSE 0

\* strings.TrimSpace(s) == "" for the white space of the scenarios
IsSpace(s) == \A n \in 1..Len(s) : SubSeq(s, n, n) \in {" ", "\t"}

\* strings.SplitN(s, ":", 2)
SplitN(s) ==
    LET n == Index(s, ":")
    IN  IF n = 0 THEN <<s>> ELSE <<SubSeq(s, 1, n - 1), SubSeq(s, n + 1, Len(s))>>

\* dep.KVListQueryRe on the source part: an optional "/", the prefix up to the
\* first "@", and after an "@" a datacenter that is not empty; the groups
\* prefix and dc of the match
KVListQueryRe(source) ==
    LET body == TrimPrefix(source, "/")
        n == Index(body, "@")
    IN  IF n = 0 THEN [match |-> TRUE, prefix |-> body, dc |-> ""]
        ELSE [match |-> n < Len(body),
              prefix |-> SubSeq(body, 1, n - 1),
              dc |-> SubSeq(body, n + 1, Len(body))]

NoPrefixConfig == [err |-> "", Source |-> "", Datacenter |-> "", Destination |-> ""]

PrefixError(err) == [NoPrefixConfig EXCEPT !.err = err]

\* a ParsePrefixConfig that leaves an empty destination empty
ParsePrefixConfigAsGiven(s) ==
    LET parts == SplitN(s)
        m == KVListQueryRe(parts[1])
    IN  IF IsSpace(s) \/ m.prefix = "" THEN PrefixError("missing prefix")
        ELSE IF ~m.match THEN PrefixError("invalid source format")
        ELSE IF m.dc = "" THEN PrefixError("missing datacenter")
        ELSE [err |-> "", Source |-> m.prefix, Datacenter |-> m.dc,
              Destination |-> IF Len(parts) = 2 THEN parts[2] ELSE ""]
\* ParsePrefixConfig: "source@dc:destination"
ParsePrefixConfig(s) ==
    IF IsSpace(s) THEN PrefixError("missing prefix")
    ELSE LET parts == SplitN(s)
             source == parts[1]
             destination == IF Len(parts) = 2 THEN parts[2] ELSE ""
             m == KVListQueryRe(source)
         IN  IF ~m.match THEN PrefixError("invalid source format")
             ELSE IF m.dc = "" THEN PrefixError("missing datacenter")
             ELSE IF m.prefix = "" THEN PrefixError("missing prefix")
             ELSE [err |-> "", Source |-> m.prefix, Datacenter |-> m.dc,
                   Destination |-> IF destination = "" THEN m.prefix ELSE destination]

\* the arguments of -prefix of the parsing scenarios, in their parts: a
\* leading "/", a prefix, an "@", a datacenter, and what follows
PrefixArgs ==
    {<<slash, prefix, at, dc, rest>> :
        slash \in {"", "/"}, prefix \in {"", " ", "foo", "a/b"}, at \in {"", "@"},
        dc \in {"", "dc1"}, rest \in {"", ":", ":bar", ":b:c@x"}}

Join(parts) == parts[1] \o parts[2] \o parts[3] \o parts[4] \o parts[5]

\* the table of TestPrefixConfig: the string and whether an error is expected
TestPrefixConfig ==
    {<<"", TRUE>>, <<" ", TRUE>>, <<"foo", TRUE>>, <<"foo@dc", FALSE>>,
     <<"/foo@dc", FALSE>>, <<"foo@dc:bar", FALSE>>, <<"@*(#42", TRUE>>}

\* the retry block of the consul block: enabled, attempts, backoff, max_backoff
\* (durations in units of the smallest backoff)
RetryConfig(enabled, attempts, backoff, maxBackoff) ==
    [Enabled |-> enabled, Attempts |-> attempts, Backoff |-> backoff,
     MaxBackoff |-> maxBackoff]

\* retries off; unlimited, two and three attempts; with and without a cap
RetryConfigs ==
    {RetryConfig(e, a, b, m) : e \in BOOLEAN, a \in {0, 2, 3}, b \in {1, 3}, m \in {0, 4}}

\* the configurations of the retry scenarios: one prefix and a retry block
RetryScenarios ==
    {[Prefixes |-> <<PrefixBackup>>, Excludes |-> <<>>, ExcludeMatches |-> <<>>,
      StatusDir |-> DefaultStatusDir, WaitMin |-> 0, WaitMax |-> 0, Retry |-> r] :
        r \in RetryConfigs}

\* other@dc1: a second prefix, of a part of the source nobody writes to
PrefixOther == Prefix("other", "dc1", "other")
\* global@dc1:default, a second destination for the source of PrefixBackup
PrefixDefault == Prefix("global", "dc1", "default")

\* -wait min(:max), in clock ticks: off, half set, max = 2 min, max < 2 min
LoopWaits == {<<0, 0>>, <<0, 2>>, <<2, 0>>, <<2, 4>>, <<3, 4>>}

\* the configurations of the event-loop scenarios
LoopConfigs ==
    {Config(<<PrefixBackup>>, <<>>, DefaultStatusDir, w[1], w[2]) : w \in LoopWaits}
        \cup {Config(<<PrefixBackup, PrefixOther>>, <<>>, DefaultStatusDir, 0, 0),
              Config(<<PrefixBackup, PrefixDefault>>, <<>>, DefaultStatusDir, 0, 0)}

Prefixes == DOMAIN config.Prefixes

\* what names a dependency in the watcher and in r.data: source@datacenter
DependencyString(prefix) == prefix.Source \o "@" \o prefix.Datacenter

\* watcher.Add has made a View for the dependency of prefix i: no earlier
\* prefix has the same dependency
Registered(i) ==
    \A j \in Prefixes :
        j < i => DependencyString(config.Prefixes[j]) # DependencyString(config.Prefixes[i])

\* the prefix whose View r.get(prefix i) looks up
ViewOf(i) ==
    CHOOSE j \in Prefixes :
        /\ Registered(j)
        /\ DependencyString(config.Prefixes[j]) = DependencyString(config.Prefixes[i])

\* the paths the source datacenter can hold, in the order a list returns them
SrcKeyOrder == <<"global/1", "global/backup">>

\* what a write to the source can carry
LockFlagValue == "0x2ddccbc058a50c18"
SemaphoreFlagValue == "0xe0f69a2baa414de0"
PlainPayload == [Value |-> "test data", Flags |-> "0x0", Session |-> ""]
LockPayload == [Value |-> "six", Flags |-> LockFlagValue, Session |-> "sess-1"]
SemaphorePayload == [Value |-> "seven", Flags |-> SemaphoreFlagValue, Session |-> ""]
SessionPayload == [Value |-> "test data", Flags |-> "0x0", Session |-> "sess-1"]

\* the writers of the replication scenarios: one payload at the source, the
\* same bytes from the operators at the destination
ReplEnv == [srcKeys |-> {"global/1", "global/backup"}, payloads |-> {PlainPayload},
            external |-> PlainPayload]

\* the writers of the payload scenarios: one key at the source, written with a
\* lock, a semaphore or an attached session
PayloadEnv == [srcKeys |-> {"global/1"},
               payloads |-> {LockPayload, SemaphorePayload, SessionPayload},
               external |-> PlainPayload]

\* the writers of the event-loop scenarios: one key at the source, no operator
LoopEnv == [srcKeys |-> {"global/1"}, payloads |-> {PlainPayload},
            external |-> PlainPayload]

NoPair == [ModifyIndex |-> 0, Payload |-> PlainPayload]

\* Runner.statusPath; md5 and hex are taken as injective: "#" followed by the input
Md5Hex(plain) == "#" \o plain
statusPath(prefix) ==
    TrimRight(config.StatusDir, "/") \o "/"
        \o Md5Hex(prefix.Source \o "-" \o prefix.Destination)

\* the keys the destination datacenter can hold, in the order a list returns them
DstKeyOrder ==
    <<"backup/1", "backup/backup", "backup/replicate/#global-backup", "backup/x",
      "global/1", "global/backup", "global/x",
      "service/consul-replicate/statuses/#global-backup",
      "service/consul-replicate/statuses/#global-global",
      "service/consul-replicate/statuses/#other-other",
      "x-backup/1", "x-backup/backup">>

StatusPaths == {statusPath(config.Prefixes[i]) : i \in Prefixes}

\* the keys an operator may write or delete at the destination: those under a
\* configured destination (others are never read or written by the program)
ExternalKeys ==
    {k \in Range(DstKeyOrder) :
        /\ k \notin StatusPaths
        /\ \E i \in Prefixes : HasPrefix(k, config.Prefixes[i].Destination)}

--------------------------------------------------------------------------
(* The KV stores *)

NoStatus == [present |-> FALSE, valid |-> TRUE, LastReplicated |-> 0,
             Source |-> "", Destination |-> ""]

\* the keys present at the destination, Status Records included
DstKeys(kv, st) == DOMAIN kv \cup {p \in DOMAIN st : st[p].present}

\* kv.Keys(prefix, "", nil): the present keys under prefix, sorted
Keys(prefix) ==
    SelectKeys(DstKeyOrder, {k \in DstKeys(dstKV, statusKV) : HasPrefix(k, prefix)})

KVPut(kv, key, entry) ==
    [k \in DOMAIN kv \cup {key} |-> IF k = key THEN entry ELSE kv[k]]

KVDelete(kv, key) == [k \in DOMAIN kv \ {key} |-> kv[k]]

\* the source's list of a prefix: the present pairs under it, sorted
SrcList(source) ==
    LET present == {k \in Range(SrcKeyOrder) :
                        srcKV[k].ModifyIndex > 0 /\ HasPrefix(k, source)}
        paths == SelectKeys(SrcKeyOrder, present)
    IN  [n \in DOMAIN paths |->
            [Path |-> paths[n],
             Value |-> srcKV[paths[n]].Payload.Value,
             Flags |-> srcKV[paths[n]].Payload.Flags,
             Session |-> srcKV[paths[n]].Payload.Session,
             ModifyIndex |-> srcKV[paths[n]].ModifyIndex]]

--------------------------------------------------------------------------
(* Initial states *)

NoTimer == {}

IdleReplicate ==
    [pc |-> "idle", status |-> NoStatus, pairs |-> <<>>, lastIndex |-> 0,
     next |-> 1, usedKeys |-> {}, localKeys |-> <<>>, nextKey |-> 1, err |-> ""]

\* a View and its poller: retries counts the failed polls since the last
\* answer, slept is the sleep after the last of them, gaveUp says that the
\* poller has reported its error
NoView ==
    [Data |-> <<>>, LastIndex |-> 0, stopped |-> FALSE, retries |-> 0, slept |-> 0,
     gaveUp |-> FALSE]

NoRun == [ok |-> FALSE, lastIndex |-> 0]

InitHist ==
    [ops |-> [i \in Prefixes |-> <<>>],        \* the RPCs of the current Run that write
     put |-> [i \in Prefixes |-> {}],          \* the pairs this process has PUT: <<path, modify index>>
     dst0 |-> {},                              \* the destination's keys when the Run began
     c0 |-> [i \in Prefixes |-> 0],            \* the persisted LastReplicated when the Run began
     last |-> [i \in Prefixes |-> NoRun],      \* the last Run to finish
     prev |-> [i \in Prefixes |-> NoRun],      \* hist.last when the current Run began
     runs |-> 0,                               \* once mode: Runs begun by this process
     received |-> 0,                           \* once mode: Views received by this process
     trigger |-> "",                           \* what began the current Run
     runAt |-> 0,                              \* when the current Run began
     runFirst |-> NoTimer,                     \* hist.firstEvt when the current Run began
     runLast |-> NoTimer,                      \* hist.lastEvt when the current Run began
     firstEvt |-> NoTimer,                     \* when the data event that armed maxTimer came
     lastEvt |-> NoTimer,                      \* when the data event that armed minTimer came
     nEvt |-> 0,                               \* the data events since the timers were cleared
     pending |-> FALSE,                        \* a data event waits for its Run
     runEvts |-> 0,                            \* hist.nEvt when the current Run began
     failed |-> {},                            \* the errors of the last Run of this process
     stopLeft |-> {},                          \* the Replicators still at work when Stop returned
     errSeen |-> FALSE,                        \* Start has received a watcher error
     runAfterErr |-> FALSE]                    \* a Run began after that

\* NewRunner, Runner.init: the state a new process starts in
\* no session (the empty pair.Session)
NoSession == <<>>

\* no instance of the v0.1 Replicator
NoLegacy ==
    /\ lock = NoSession
    /\ sessions = {}
    /\ replicators = <<>>

InitStart ==
    /\ view = [i \in Prefixes |-> NoView]
    /\ dataCh = <<>>
    /\ watchErr = FALSE
    /\ data = {}
    /\ pc = "start"
    /\ onceCount = 0
    /\ onceCh = 0
    /\ minTimer = NoTimer
    /\ maxTimer = NoTimer
    /\ rp = [i \in Prefixes |-> IdleReplicate]
    /\ errCh = <<>>
    /\ doneCh = "open"

InitRunner ==
    /\ NoLegacy
    /\ InitStart

SrcEmpty == [k \in Range(SrcKeyOrder) |-> NoPair]
SrcFirstKey ==
    [k \in Range(SrcKeyOrder) |->
        IF k = SrcKeyOrder[1] THEN [ModifyIndex |-> 1, Payload |-> PlainPayload]
        ELSE NoPair]

\* The source datacenter is empty or holds its first key and the destination
\* is empty.  Either nothing has been replicated yet, or an earlier process
\* replicated the first key and an operator has emptied the destination since.
InitStores ==
    /\ srcIndex = 1
    /\ dstKV = <<>>
    /\ now = 0
    /\ \/ /\ srcKV \in {SrcEmpty, SrcFirstKey}
          /\ statusKV = [p \in StatusPaths |-> NoStatus]
          /\ hist = InitHist
       \/ /\ srcKV = SrcFirstKey
          /\ \A i \in Prefixes : config.Prefixes[i].Datacenter # LocalDatacenter
          /\ statusKV = [p \in StatusPaths |->
                 LET i == CHOOSE i \in Prefixes : p = statusPath(config.Prefixes[i])
                 IN  [present |-> TRUE, valid |-> TRUE, LastReplicated |-> 1,
                      Source |-> config.Prefixes[i].Source,
                      Destination |-> config.Prefixes[i].Destination]]
          /\ hist = [InitHist EXCEPT !.last =
                        [i \in Prefixes |-> [ok |-> FALSE, lastIndex |-> 1]]]
       \* or an operator has overwritten the Status Records with text that is
       \* no JSON
       \/ /\ srcKV = SrcFirstKey
          /\ \A i \in Prefixes : config.Prefixes[i].Datacenter # LocalDatacenter
          /\ statusKV = [p \in StatusPaths |-> [NoStatus EXCEPT !.present = TRUE,
                                                                !.valid = FALSE]]
          /\ hist = InitHist

Init ==
    /\ config \in ReplConfigs
    /\ once = FALSE
    /\ env = ReplEnv
    /\ InitStores
    /\ InitRunner

\* the scenarios of an exclude that the destination's name, replaced by the
\* source's wherever it occurs in a key, runs into: -exclude global/global
ExcludeConfigs == {Config(<<PrefixBackup>>, <<"global/global">>, DefaultStatusDir, 0, 0)}

InitExclude ==
    /\ config \in ExcludeConfigs
    /\ once = FALSE
    /\ env = ReplEnv
    /\ InitStores
    /\ InitRunner

\* the scenarios of an exclude match: -excludematch /backup
MatchConfigs ==
    {[Config(<<PrefixBackup>>, <<>>, DefaultStatusDir, 0, 0)
         EXCEPT !.ExcludeMatches = <<"/backup">>]}

InitMatch ==
    /\ config \in MatchConfigs
    /\ once = FALSE
    /\ env = ReplEnv
    /\ InitStores
    /\ InitRunner

\* global/backup@dc1:backup/x, a destination under the one of PrefixBackup
PrefixNested == Prefix("global/backup", "dc1", "backup/x")

\* the scenarios of two prefixes whose destinations overlap
NestedConfigs ==
    {Config(<<PrefixBackup, PrefixNested>>, <<>>, DefaultStatusDir, 0, 0)}

InitNested ==
    /\ config \in NestedConfigs
    /\ once = FALSE
    /\ env = ReplEnv
    /\ InitStores
    /\ InitRunner

\* the live scenarios: a daemon whose prefix names another datacenter and
\* whose Status Records, if any, are JSON
InitLive ==
    /\ config \in ReplConfigs
    /\ \A i \in Prefixes : config.Prefixes[i].Datacenter # LocalDatacenter
    /\ once = FALSE
    /\ env = ReplEnv
    /\ InitStores
    /\ \A p \in StatusPaths : statusKV[p].valid
    /\ InitRunner

\* the configurations of the payload scenarios: one prefix, nothing excluded,
\* with -delete=false and with -delete=true (the default)
PayloadConfigs ==
    {Config(<<PrefixBackup>>, <<>>, DefaultStatusDir, 0, 0) @@ [DeleteKey |-> b] :
        b \in BOOLEAN}

\* the payload scenarios
InitPayload ==
    /\ config \in PayloadConfigs
    /\ once = FALSE
    /\ env = PayloadEnv
    /\ InitStores
    /\ InitRunner

\* the parsing scenarios: a -prefix argument, nothing parsed yet, no Runner
InitParse ==
    /\ config = Config(<<>>, <<>>, DefaultStatusDir, 0, 0)
    /\ once = FALSE
    /\ \/ \E parts \in PrefixArgs :
              env = [arg |-> Join(parts), parts |-> parts, parsed |-> <<>>]
       \/ \E tc \in TestPrefixConfig :
              env = [arg |-> tc[1], parts |-> <<>>, parsed |-> <<>>]
    /\ srcIndex = 1
    /\ srcKV = SrcEmpty
    /\ dstKV = <<>>
    /\ statusKV = [p \in StatusPaths |-> NoStatus]
    /\ now = 0
    /\ hist = InitHist
    /\ InitRunner

\* the Status Record scenarios: two prefixes whose sources and destinations
\* are drawn from names with and without the "-" that statusPath joins them by;
\* no path computed yet, no Runner
StatusPathSources == {"a", "a-b", "global"}
StatusPathDestinations == {"c", "b-c", "backup"}
InitStatusPath ==
    /\ \E s1, s2 \in StatusPathSources, d1, d2 \in StatusPathDestinations :
           config = Config(<<Prefix(s1, "dc1", d1), Prefix(s2, "dc1", d2)>>, <<>>,
                           DefaultStatusDir, 0, 0)
    /\ once = FALSE
    /\ env = [paths |-> <<>>]
    /\ srcIndex = 1
    /\ srcKV = SrcEmpty
    /\ dstKV = <<>>
    /\ statusKV = [p \in StatusPaths |-> NoStatus]
    /\ now = 0
    /\ hist = InitHist
    /\ InitRunner

\* the retry scenarios: daemon mode, the first key at the source
InitRetry ==
    /\ config \in RetryScenarios
    /\ once = FALSE
    /\ env = LoopEnv
    /\ srcIndex = 1
    /\ srcKV = SrcFirstKey
    /\ dstKV = <<>>
    /\ statusKV = [p \in StatusPaths |-> NoStatus]
    /\ now = 0
    /\ hist = InitHist
    /\ InitRunner

\* the event-loop scenarios: daemon or once mode (two prefixes: once mode),
\* nothing replicated yet
InitLoop ==
    /\ config \in LoopConfigs
    /\ once \in IF Len(config.Prefixes) > 1 THEN {TRUE} ELSE BOOLEAN
    /\ env = LoopEnv
    /\ srcIndex = 1
    /\ srcKV \in {SrcEmpty, SrcFirstKey}
    /\ dstKV = <<>>
    /\ statusKV = [p \in StatusPaths |-> NoStatus]
    /\ now = 0
    /\ hist = InitHist
    /\ InitRunner

--------------------------------------------------------------------------
(* The environment: the source datacenter, operators, the watcher's pollers *)

Running == pc \notin {"start", "exit", "panic"}

\* A Run reads the Views once, early (RGetStatus).  A source change or a poll
\* after that is seen by the program exactly as one right after the Run, so
\* only those before the read are interleaved with a Run.
BeforeViewRead(i) == pc # "run" \/ rp[i].pc \in {"self", "status"}

\* a write to the source datacenter
SrcWrite(k, payload) ==
    /\ \E i \in Prefixes : BeforeViewRead(i)
    /\ srcIndex < MaxIndex
    /\ srcIndex' = srcIndex + 1
    /\ srcKV' = [srcKV EXCEPT ![k] = [ModifyIndex |-> srcIndex + 1, Payload |-> payload]]
    /\ UNCHANGED <<legacyVars, config, once, env, dstKV, statusKV, view, dataCh, watchErr, data, pc,
                   onceCount, onceCh, minTimer, maxTimer, now, rp, errCh, doneCh, hist>>

\* a delete at the source datacenter
SrcDelete(k) ==
    /\ \E i \in Prefixes : BeforeViewRead(i)
    /\ srcIndex < MaxIndex
    /\ srcKV[k].ModifyIndex > 0
    /\ srcIndex' = srcIndex + 1
    /\ srcKV' = [srcKV EXCEPT ![k] = NoPair]
    /\ UNCHANGED <<legacyVars, config, once, env, dstKV, statusKV, view, dataCh, watchErr, data, pc,
                   onceCount, onceCh, minTimer, maxTimer, now, rp, errCh, doneCh, hist>>

\* hist.last holds while the destination is as the last Run left it
ExternalChange ==
    [hist EXCEPT !.last = [i \in Prefixes |-> [hist.last[i] EXCEPT !.ok = FALSE]]]

\* an operator writes a key at the destination (between Runs)
DstPut(k) ==
    /\ pc # "run"
    /\ k \notin DOMAIN dstKV
    /\ dstKV' = KVPut(dstKV, k, env.external)
    /\ hist' = ExternalChange
    /\ UNCHANGED <<legacyVars, config, once, env, srcKV, srcIndex, statusKV, view, dataCh, watchErr, data,
                   pc, onceCount, onceCh, minTimer, maxTimer, now, rp, errCh, doneCh>>

\* an operator deletes a key at the destination (between Runs)
DstDelete(k) ==
    /\ pc # "run"
    /\ k \in DOMAIN dstKV
    /\ dstKV' = KVDelete(dstKV, k)
    /\ hist' = ExternalChange
    /\ UNCHANGED <<legacyVars, config, once, env, srcKV, srcIndex, statusKV, view, dataCh, watchErr, data,
                   pc, onceCount, onceCh, minTimer, maxTimer, now, rp, errCh, doneCh>>

\* a poller that publishes whatever the list answers
PollAnyIndex(i) ==
    /\ Running /\ doneCh # "closed"
    /\ Registered(i)
    /\ BeforeViewRead(i)
    /\ ~view[i].stopped
    /\ view' = [view EXCEPT ![i] =
                   [NoView EXCEPT !.Data = SrcList(config.Prefixes[i].Source),
                                  !.LastIndex = srcIndex, !.stopped = once]]
    /\ dataCh' = Append(dataCh, i)
    /\ UNCHANGED <<legacyVars, config, once, env, srcKV, srcIndex, dstKV, statusKV, watchErr, data, pc,
                   onceCount, onceCh, minTimer, maxTimer, now, rp, errCh, doneCh, hist>>

\* the poller of prefix i gets a list with a new index: it updates its View and
\* publishes it; in once mode it then returns
Poll(i) ==
    /\ Running /\ doneCh # "closed"
    /\ Registered(i)
    /\ BeforeViewRead(i)
    /\ ~view[i].stopped
    /\ srcIndex # view[i].LastIndex
    /\ view' = [view EXCEPT ![i] =
                   [NoView EXCEPT !.Data = SrcList(config.Prefixes[i].Source),
                                  !.LastIndex = srcIndex, !.stopped = once]]
    /\ dataCh' = Append(dataCh, i)
    /\ UNCHANGED <<legacyVars, config, once, env, srcKV, srcIndex, dstKV, statusKV, watchErr, data, pc,
                   onceCount, onceCh, minTimer, maxTimer, now, rp, errCh, doneCh, hist>>

\* the poller of prefix i has used up its retries: it reports the error and returns
PollGiveUp(i) ==
    /\ Running /\ doneCh # "closed"
    /\ Registered(i)
    /\ ~view[i].stopped
    /\ ~watchErr
    /\ watchErr' = TRUE
    /\ view' = [view EXCEPT ![i].stopped = TRUE, ![i].gaveUp = TRUE]
    /\ UNCHANGED <<legacyVars, config, once, env, srcKV, srcIndex, dstKV, statusKV, dataCh, data, pc,
                   onceCount, onceCh, minTimer, maxTimer, now, rp, errCh, doneCh, hist>>

Pow2(k) == 2 ^ k

Min(a, b) == IF a < b THEN a ELSE b

\* RetryConfig.RetryFunc: no retry when retries are off or the attempts are
\* used up (attempts = 0: never); otherwise a sleep of backoff * 2^retry, at
\* most max_backoff unless max_backoff is zero
RetryFunc(c, retry) ==
    IF ~c.Enabled THEN [retry |-> FALSE, sleep |-> 0]
    ELSE IF c.Attempts > 0 /\ retry > c.Attempts - 1 THEN [retry |-> FALSE, sleep |-> 0]
    ELSE [retry |-> TRUE,
          sleep |-> IF c.MaxBackoff > 0 THEN Min(c.Backoff * Pow2(retry), c.MaxBackoff)
                    ELSE c.Backoff * Pow2(retry)]

\* a watcher without a retry function
RetryFuncNil(retry) == [retry |-> FALSE, sleep |-> 0]
\* newWatcher: RetryFuncConsul is the RetryFunc of the consul block's retry
RetryFuncConsul(retry) == RetryFunc(config.Retry, retry)

\* a poll of prefix i fails: the poller asks the retry function with the
\* number of failed polls before this one, and sleeps and polls again or
\* reports the error and returns
PollFail(i) ==
    /\ Running /\ doneCh # "closed"
    /\ Registered(i)
    /\ ~view[i].stopped
    /\ ~watchErr
    /\ LET r == RetryFuncConsul(view[i].retries)
       IN  IF r.retry
           THEN /\ view[i].retries < MaxRetries
                /\ view' = [view EXCEPT ![i].retries = @ + 1, ![i].slept = r.sleep]
                /\ UNCHANGED watchErr
           ELSE /\ view' = [view EXCEPT ![i].stopped = TRUE, ![i].gaveUp = TRUE]
                /\ watchErr' = TRUE
    /\ UNCHANGED <<legacyVars, config, once, env, srcKV, srcIndex, dstKV, statusKV, dataCh, data, pc,
                   onceCount, onceCh, minTimer, maxTimer, now, rp, errCh, doneCh, hist>>

--------------------------------------------------------------------------
(* Runner.replicate: one goroutine per prefix, one step per RPC *)

ErrAgent == "failed to query agent"
ErrSelf == "local datacenter cannot be the source datacenter"
ErrStatus == "failed to read replication status"
ErrStatusJSON == "failed to read replication status: invalid character"
ErrWrite == "failed to write"
ErrList == "failed to list keys"
ErrDelete == "failed to delete"
ErrCheckpoint == "failed to checkpoint status"

\* a guard that looks at the wrong field of the prefix
IsSelfReplicationBySource(prefix) == LocalDatacenter = prefix.Source
\* the self-replication guard
IsSelfReplication(prefix) == LocalDatacenter = prefix.Datacenter

\* the destination key of an observed pair
DestinationKey(prefix, path) == prefix.Destination \o TrimPrefix(path, prefix.Source)

\* "Ignore if the key falls under an excluded prefix" (updates)
Excluded(path) ==
    /\ Len(config.Excludes) > 0
    /\ \E n \in DOMAIN config.Excludes : HasPrefix(path, config.Excludes[n])

\* "Ignore if the key falls under an exclude path match" (updates)
ExcludeMatched(path) ==
    /\ Len(config.ExcludeMatches) > 0
    /\ \E n \in DOMAIN config.ExcludeMatches : Contains(path, config.ExcludeMatches[n])

\* an index comparison that lets the pair of the checkpoint's index through
IsOlder(pair, status) == pair.ModifyIndex < status.LastReplicated
\* an index comparison that is off by one
IsOldOrNext(pair, status) == pair.ModifyIndex <= status.LastReplicated + 1
\* "Ignore if the modify index is old"
IsOld(pair, status) == pair.ModifyIndex <= status.LastReplicated

\* the source key that the delete pass computes for a destination key
sourceKey(prefix, key) == Replace(key, prefix.Destination, prefix.Source)

\* "Ignore if the key falls under an excluded prefix" (deletes)
ExcludedFromDelete(prefix, key) ==
    /\ Len(config.Excludes) > 0
    /\ \E n \in DOMAIN config.Excludes :
           HasPrefix(sourceKey(prefix, key), config.Excludes[n])

\* "Ignore if the key falls under an excluded match path" (deletes)
ExcludeMatchedFromDelete(prefix, key) ==
    /\ ~ExcludedFromDelete(prefix, key)
    /\ Len(config.ExcludeMatches) > 0
    /\ \E n \in DOMAIN config.ExcludeMatches :
           Contains(sourceKey(prefix, key), config.ExcludeMatches[n])

\* a delete pass that does not look at the excludes
ShouldDeleteUnused(prefix, key, usedKeys) == key \notin usedKeys
\* what the delete pass does with a listed key
ShouldDelete(prefix, key, usedKeys) ==
    /\ key \notin usedKeys
    /\ ~ExcludedFromDelete(prefix, key)
    /\ ~ExcludeMatchedFromDelete(prefix, key)

\* a status update that leaves LastReplicated at its zero value
StatusWithoutIndex(prefix, status, lastIndex) ==
    [present |-> TRUE, valid |-> TRUE, LastReplicated |-> 0,
     Source |-> prefix.Source, Destination |-> prefix.Destination]
\* a status update that stores the index after the one of the View
StatusAhead(prefix, status, lastIndex) ==
    [present |-> TRUE, valid |-> TRUE, LastReplicated |-> lastIndex + 1,
     Source |-> prefix.Source, Destination |-> prefix.Destination]
\* "Update our status"
UpdatedStatus(prefix, status, lastIndex) ==
    [present |-> TRUE, valid |-> TRUE, LastReplicated |-> lastIndex,
     Source |-> prefix.Source, Destination |-> prefix.Destination]

\* a PUT without the pair's flags
PutBodyValue(pair) == [Value |-> pair.Value, Flags |-> "0x0", Session |-> ""]
\* a PUT of the pair as it was observed
PutBodyPair(pair) == [Value |-> pair.Value, Flags |-> pair.Flags, Session |-> pair.Session]
\* the body of the PUT of a pair: key, flags and value, no session
PutBody(pair) == [Value |-> pair.Value, Flags |-> pair.Flags, Session |-> ""]

NoBody == [Value |-> "", Flags |-> "", Session |-> ""]

Op(op, key, ok, body) == [op |-> op, key |-> key, ok |-> ok, body |-> body]

Logged(i, o) == [hist EXCEPT !.ops[i] = Append(@, o)]

Fail(i, err) == [rp EXCEPT ![i].pc = "err", ![i].err = err]

\* r.clients.Consul().Agent().Self() answers
RSelf(i) ==
    /\ rp[i].pc = "self"
    /\ rp' = IF IsSelfReplication(config.Prefixes[i])
             THEN Fail(i, ErrSelf)
             ELSE [rp EXCEPT ![i].pc = "status"]
    /\ UNCHANGED <<legacyVars, config, once, env, srcKV, srcIndex, dstKV, statusKV, view, dataCh, watchErr,
                   data, pc, onceCount, onceCh, minTimer, maxTimer, now, errCh, doneCh,
                   hist>>

\* r.clients.Consul().Agent().Self() fails
RSelfFail(i) ==
    /\ rp[i].pc = "self"
    /\ rp' = Fail(i, ErrAgent)
    /\ UNCHANGED <<legacyVars, config, once, env, srcKV, srcIndex, dstKV, statusKV, view, dataCh, watchErr,
                   data, pc, onceCount, onceCh, minTimer, maxTimer, now, errCh, doneCh,
                   hist>>

\* a getStatus that takes a value that does not unmarshal for a missing one
getStatusOrZero(prefix) ==
    LET stored == statusKV[statusPath(prefix)]
    IN  IF ~stored.present \/ ~stored.valid THEN [err |-> FALSE, status |-> NoStatus]
        ELSE [err |-> FALSE, status |-> stored]
\* Runner.getStatus: the zero Status when the key is missing, an error when the
\* value does not unmarshal
getStatus(prefix) ==
    LET stored == statusKV[statusPath(prefix)]
    IN  IF ~stored.present THEN [err |-> FALSE, status |-> NoStatus]
        ELSE IF ~stored.valid THEN [err |-> TRUE, status |-> NoStatus]
        ELSE [err |-> FALSE, status |-> stored]

\* a replicate that takes the zero View when the Runner holds none
RGetStatusAnyView(i) ==
    /\ rp[i].pc = "status"
    /\ LET got == getStatus(config.Prefixes[i])
       IN  rp' = IF got.err THEN Fail(i, ErrStatusJSON)
                 ELSE [rp EXCEPT ![i].pc = "update",
                                 ![i].status = got.status,
                                 ![i].pairs = view[i].Data,
                                 ![i].lastIndex = view[i].LastIndex,
                                 ![i].next = 1,
                                 ![i].usedKeys = {}]
    /\ UNCHANGED <<legacyVars, config, once, env, srcKV, srcIndex, dstKV, statusKV, view, dataCh, watchErr,
                   data, pc, onceCount, onceCh, minTimer, maxTimer, now, errCh, doneCh,
                   hist>>

\* getStatus answers; then r.get(prefix) and view.DataAndLastIndex()
RGetStatus(i) ==
    /\ rp[i].pc = "status"
    /\ LET got == getStatus(config.Prefixes[i])
       IN  rp' = IF got.err THEN Fail(i, ErrStatusJSON)
                 ELSE IF ViewOf(i) \notin data
                      THEN [rp EXCEPT ![i].pc = "done", ![i].status = got.status]
                      ELSE [rp EXCEPT ![i].pc = "update",
                                      ![i].status = got.status,
                                      ![i].pairs = view[ViewOf(i)].Data,
                                      ![i].lastIndex = view[ViewOf(i)].LastIndex,
                                      ![i].next = 1,
                                      ![i].usedKeys = {}]
    /\ UNCHANGED <<legacyVars, config, once, env, srcKV, srcIndex, dstKV, statusKV, view, dataCh, watchErr,
                   data, pc, onceCount, onceCh, minTimer, maxTimer, now, errCh, doneCh,
                   hist>>

\* the kv.Get of getStatus fails
RGetStatusFail(i) ==
    /\ rp[i].pc = "status"
    /\ rp' = Fail(i, ErrStatus)
    /\ UNCHANGED <<legacyVars, config, once, env, srcKV, srcIndex, dstKV, statusKV, view, dataCh, watchErr,
                   data, pc, onceCount, onceCh, minTimer, maxTimer, now, errCh, doneCh,
                   hist>>

NextPair(i) == rp[i].pairs[rp[i].next]
NextPairKey(i) == DestinationKey(config.Prefixes[i], NextPair(i).Path)

\* does the update loop PUT this pair?
ShouldPut(pair, status) ==
    ~Excluded(pair.Path) /\ ~ExcludeMatched(pair.Path) /\ ~IsOld(pair, status)

\* an iteration of the update loop that continues without a PUT
RUpdateSkip(i) ==
    /\ rp[i].pc = "update" /\ rp[i].next <= Len(rp[i].pairs)
    /\ ~ShouldPut(NextPair(i), rp[i].status)
    /\ rp' = [rp EXCEPT ![i].usedKeys = @ \cup {NextPairKey(i)}, ![i].next = @ + 1]
    /\ UNCHANGED <<legacyVars, config, once, env, srcKV, srcIndex, dstKV, statusKV, view, dataCh, watchErr,
                   data, pc, onceCount, onceCh, minTimer, maxTimer, now, errCh, doneCh,
                   hist>>

\* an iteration of the update loop whose kv.Put succeeds
RPut(i) ==
    /\ rp[i].pc = "update" /\ rp[i].next <= Len(rp[i].pairs)
    /\ ShouldPut(NextPair(i), rp[i].status)
    /\ dstKV' = KVPut(dstKV, NextPairKey(i), PutBody(NextPair(i)))
    /\ rp' = [rp EXCEPT ![i].usedKeys = @ \cup {NextPairKey(i)}, ![i].next = @ + 1]
    /\ hist' = [Logged(i, Op("PUT", NextPairKey(i), TRUE, PutBody(NextPair(i))))
                    EXCEPT !.put[i] = @ \cup {<<NextPair(i).Path, NextPair(i).ModifyIndex>>}]
    /\ UNCHANGED <<legacyVars, config, once, env, srcKV, srcIndex, statusKV, view, dataCh, watchErr, data,
                   pc, onceCount, onceCh, minTimer, maxTimer, now, errCh, doneCh>>

\* an iteration of the update loop whose kv.Put fails
RPutFail(i) ==
    /\ rp[i].pc = "update" /\ rp[i].next <= Len(rp[i].pairs)
    /\ ShouldPut(NextPair(i), rp[i].status)
    /\ rp' = [Fail(i, ErrWrite) EXCEPT ![i].usedKeys = @ \cup {NextPairKey(i)}]
    /\ hist' = Logged(i, Op("PUT", NextPairKey(i), FALSE, PutBody(NextPair(i))))
    /\ UNCHANGED <<legacyVars, config, once, env, srcKV, srcIndex, dstKV, statusKV, view, dataCh, watchErr,
                   data, pc, onceCount, onceCh, minTimer, maxTimer, now, errCh, doneCh>>

\* after the update loop, kv.Keys(prefix.Destination) answers
RList(i) ==
    /\ rp[i].pc = "update" /\ rp[i].next > Len(rp[i].pairs)
    /\ rp' = [rp EXCEPT ![i].pc = "delete",
                        ![i].localKeys = Keys(config.Prefixes[i].Destination),
                        ![i].nextKey = 1]
    /\ hist' = Logged(i, Op("LIST", config.Prefixes[i].Destination, TRUE, NoBody))
    /\ UNCHANGED <<legacyVars, config, once, env, srcKV, srcIndex, dstKV, statusKV, view, dataCh, watchErr,
                   data, pc, onceCount, onceCh, minTimer, maxTimer, now, errCh, doneCh>>

\* after the update loop, kv.Keys fails
RListFail(i) ==
    /\ rp[i].pc = "update" /\ rp[i].next > Len(rp[i].pairs)
    /\ rp' = Fail(i, ErrList)
    /\ hist' = Logged(i, Op("LIST", config.Prefixes[i].Destination, FALSE, NoBody))
    /\ UNCHANGED <<legacyVars, config, once, env, srcKV, srcIndex, dstKV, statusKV, view, dataCh, watchErr,
                   data, pc, onceCount, onceCh, minTimer, maxTimer, now, errCh, doneCh>>

NextLocalKey(i) == rp[i].localKeys[rp[i].nextKey]

\* an iteration of the delete loop that keeps the key
RDeleteSkip(i) ==
    /\ rp[i].pc = "delete" /\ rp[i].nextKey <= Len(rp[i].localKeys)
    /\ ~ShouldDelete(config.Prefixes[i], NextLocalKey(i), rp[i].usedKeys)
    /\ rp' = [rp EXCEPT ![i].nextKey = @ + 1]
    /\ UNCHANGED <<legacyVars, config, once, env, srcKV, srcIndex, dstKV, statusKV, view, dataCh, watchErr,
                   data, pc, onceCount, onceCh, minTimer, maxTimer, now, errCh, doneCh,
                   hist>>

\* a delete loop that goes back to the update loop after a kv.Delete
RDeleteThenUpdate(i) ==
    /\ rp[i].pc = "delete" /\ rp[i].nextKey <= Len(rp[i].localKeys)
    /\ ShouldDelete(config.Prefixes[i], NextLocalKey(i), rp[i].usedKeys)
    /\ dstKV' = KVDelete(dstKV, NextLocalKey(i))
    /\ statusKV' = [p \in DOMAIN statusKV |->
                       IF p = NextLocalKey(i) THEN NoStatus ELSE statusKV[p]]
    /\ rp' = [rp EXCEPT ![i].pc = "update", ![i].next = 1]
    /\ hist' = Logged(i, Op("DELETE", NextLocalKey(i), TRUE, NoBody))
    /\ UNCHANGED <<legacyVars, config, once, env, srcKV, srcIndex, view, dataCh, watchErr, data, pc,
                   onceCount, onceCh, minTimer, maxTimer, now, errCh, doneCh>>

\* an iteration of the delete loop whose kv.Delete succeeds
RDelete(i) ==
    /\ rp[i].pc = "delete" /\ rp[i].nextKey <= Len(rp[i].localKeys)
    /\ ShouldDelete(config.Prefixes[i], NextLocalKey(i), rp[i].usedKeys)
    /\ dstKV' = KVDelete(dstKV, NextLocalKey(i))
    /\ statusKV' = [p \in DOMAIN statusKV |->
                       IF p = NextLocalKey(i) THEN NoStatus ELSE statusKV[p]]
    /\ rp' = [rp EXCEPT ![i].nextKey = @ + 1]
    /\ hist' = Logged(i, Op("DELETE", NextLocalKey(i), TRUE, NoBody))
    /\ UNCHANGED <<legacyVars, config, once, env, srcKV, srcIndex, view, dataCh, watchErr, data, pc,
                   onceCount, onceCh, minTimer, maxTimer, now, errCh, doneCh>>

\* an iteration of the delete loop whose kv.Delete fails
RDeleteFail(i) ==
    /\ rp[i].pc = "delete" /\ rp[i].nextKey <= Len(rp[i].localKeys)
    /\ ShouldDelete(config.Prefixes[i], NextLocalKey(i), rp[i].usedKeys)
    /\ rp' = Fail(i, ErrDelete)
    /\ hist' = Logged(i, Op("DELETE", NextLocalKey(i), FALSE, NoBody))
    /\ UNCHANGED <<legacyVars, config, once, env, srcKV, srcIndex, dstKV, statusKV, view, dataCh, watchErr,
                   data, pc, onceCount, onceCh, minTimer, maxTimer, now, errCh, doneCh>>

\* after the delete loop, Runner.setStatus succeeds
RSetStatus(i) ==
    /\ rp[i].pc = "delete" /\ rp[i].nextKey > Len(rp[i].localKeys)
    /\ statusKV' = [statusKV EXCEPT ![statusPath(config.Prefixes[i])] =
                       UpdatedStatus(config.Prefixes[i], rp[i].status, rp[i].lastIndex)]
    /\ rp' = [rp EXCEPT ![i].pc = "done"]
    /\ hist' = Logged(i, Op("STATUS", statusPath(config.Prefixes[i]), TRUE, NoBody))
    /\ UNCHANGED <<legacyVars, config, once, env, srcKV, srcIndex, dstKV, view, dataCh, watchErr, data, pc,
                   onceCount, onceCh, minTimer, maxTimer, now, errCh, doneCh>>

\* a replicate that logs the failed checkpoint and reports done
RSetStatusFailLogged(i) ==
    /\ rp[i].pc = "delete" /\ rp[i].nextKey > Len(rp[i].localKeys)
    /\ rp' = [rp EXCEPT ![i].pc = "done"]
    /\ hist' = Logged(i, Op("STATUS", statusPath(config.Prefixes[i]), FALSE, NoBody))
    /\ UNCHANGED <<legacyVars, config, once, env, srcKV, srcIndex, dstKV, statusKV, view, dataCh, watchErr,
                   data, pc, onceCount, onceCh, minTimer, maxTimer, now, errCh, doneCh>>
\* after the delete loop, the kv.Put of Runner.setStatus fails
RSetStatusFail(i) ==
    /\ rp[i].pc = "delete" /\ rp[i].nextKey > Len(rp[i].localKeys)
    /\ rp' = Fail(i, ErrCheckpoint)
    /\ hist' = Logged(i, Op("STATUS", statusPath(config.Prefixes[i]), FALSE, NoBody))
    /\ UNCHANGED <<legacyVars, config, once, env, srcKV, srcIndex, dstKV, statusKV, view, dataCh, watchErr,
                   data, pc, onceCount, onceCh, minTimer, maxTimer, now, errCh, doneCh>>

Replicate(i) ==
    \/ RSelf(i) \/ RSelfFail(i)
    \/ RGetStatus(i) \/ RGetStatusFail(i)
    \/ RUpdateSkip(i) \/ RPut(i) \/ RPutFail(i)
    \/ RList(i) \/ RListFail(i)
    \/ RDeleteSkip(i) \/ RDelete(i) \/ RDeleteFail(i)
    \/ RSetStatus(i) \/ RSetStatusFail(i)

\* a step of replicate whose RPC succeeds
ReplicateOK(i) ==
    \/ RSelf(i)
    \/ RGetStatus(i)
    \/ RUpdateSkip(i) \/ RPut(i)
    \/ RList(i)
    \/ RDeleteSkip(i) \/ RDelete(i)
    \/ RSetStatus(i)

--------------------------------------------------------------------------
(* Runner.Start, Runner.Run, Runner.Stop *)

\* timers that start when either duration is set
GateEnabledByEither == config.WaitMin # 0 \/ config.WaitMax # 0
\* "If we are waiting for quiescence, setup the timers"
GateEnabled == config.WaitMin # 0 /\ config.WaitMax # 0

\* a timer channel has a value to receive
Fired(timer) == \E t \in timer : t <= now

\* time.After(d)
After(d) == {now + d}

\* r.minTimer and r.maxTimer after a data event
ArmedMin == After(config.WaitMin)
\* a maxTimer that every data event starts again
RearmedMax == After(config.WaitMax)
ArmedMax == IF maxTimer = NoTimer THEN After(config.WaitMax) ELSE maxTimer

\* Runner.Receive for every view in the channel (the receive and the drain loop)
Received == data \cup Range(dataCh)

PersistedIndex(i) == getStatus(config.Prefixes[i]).status.LastReplicated

\* Runner.Run starts: one replicate goroutine per prefix
BeginRun(trigger, h) ==
    /\ pc' = "run"
    /\ rp' = [i \in Prefixes |-> [IdleReplicate EXCEPT !.pc = "self"]]
    /\ hist' = [h EXCEPT !.ops = [i \in Prefixes |-> <<>>],
                         !.dst0 = DstKeys(dstKV, statusKV),
                         !.c0 = [i \in Prefixes |-> PersistedIndex(i)],
                         !.prev = h.last,
                         !.runs = IF once THEN @ + 1 ELSE @,
                         !.runAfterErr = h.errSeen,
                         !.trigger = trigger,
                         !.runAt = now,
                         !.runFirst = hist.firstEvt,
                         !.runLast = hist.lastEvt,
                         !.runEvts = hist.nEvt,
                         !.pending = FALSE]

\* Start up to the once-mode loop: the watcher gets the dependencies
Start ==
    /\ pc = "start"
    /\ pc' = IF once THEN "once" ELSE "select"
    /\ UNCHANGED <<legacyVars, config, once, env, srcKV, srcIndex, dstKV, statusKV, view, dataCh, watchErr,
                   data, onceCount, onceCh, minTimer, maxTimer, now, rp, errCh, doneCh,
                   hist>>

\* the views the once-mode loop of Start receives
OnceViews == Len(config.Prefixes)

\* once mode: a view arrives; after len(Prefixes) views, onceCh gets its value
OnceReceive ==
    /\ pc = "once"
    /\ dataCh # <<>>
    /\ data' = data \cup {Head(dataCh)}
    /\ dataCh' = Tail(dataCh)
    /\ onceCount' = onceCount + 1
    /\ IF onceCount + 1 = OnceViews
       THEN onceCh' = 1 /\ pc' = "select"
       ELSE UNCHANGED <<legacyVars, onceCh, pc>>
    /\ hist' = [hist EXCEPT !.received = @ + 1]
    /\ UNCHANGED <<legacyVars, config, once, env, srcKV, srcIndex, dstKV, statusKV, view, watchErr,
                   minTimer, maxTimer, now, rp, errCh, doneCh>>

\* once mode: the watcher reports an error while the views are awaited
OnceWatchErr ==
    /\ pc = "once"
    /\ watchErr
    /\ watchErr' = FALSE
    /\ errCh' = Append(errCh, "watcher")
    /\ pc' = "exit"
    /\ hist' = [hist EXCEPT !.errSeen = TRUE]
    /\ UNCHANGED <<legacyVars, config, once, env, srcKV, srcIndex, dstKV, statusKV, view, dataCh, data,
                   onceCount, onceCh, minTimer, maxTimer, now, rp, doneCh>>

DataEvent(h) == [h EXCEPT !.received = IF once THEN @ + Len(dataCh) ELSE @]

TimersArmed(h) ==
    [h EXCEPT !.firstEvt = IF @ = NoTimer THEN {now} ELSE @,
              !.lastEvt = {now},
              !.nEvt = @ + 1,
              !.pending = TRUE]

TimersCleared(h) == [h EXCEPT !.firstEvt = NoTimer, !.lastEvt = NoTimer, !.nEvt = 0]

\* case view := <-r.watcher.DataCh(), quiescence on: the timers start
SelectDataWait ==
    /\ pc = "select"
    /\ dataCh # <<>>
    /\ GateEnabled
    /\ data' = Received
    /\ dataCh' = <<>>
    /\ minTimer' = ArmedMin
    /\ maxTimer' = ArmedMax
    /\ hist' = TimersArmed(DataEvent(hist))
    /\ UNCHANGED <<legacyVars, config, once, env, srcKV, srcIndex, dstKV, statusKV, view, watchErr, pc,
                   onceCount, onceCh, now, rp, errCh, doneCh>>

\* case view := <-r.watcher.DataCh(), quiescence off: Run
SelectDataRun ==
    /\ pc = "select"
    /\ dataCh # <<>>
    /\ ~GateEnabled
    /\ data' = Received
    /\ dataCh' = <<>>
    /\ BeginRun("data", DataEvent(hist))
    /\ UNCHANGED <<legacyVars, config, once, env, srcKV, srcIndex, dstKV, statusKV, view, watchErr,
                   onceCount, onceCh, minTimer, maxTimer, now, errCh, doneCh>>

\* case <-r.minTimer
SelectMinTimer ==
    /\ pc = "select"
    /\ Fired(minTimer)
    /\ minTimer' = NoTimer
    /\ maxTimer' = NoTimer
    /\ BeginRun("minTimer", TimersCleared(hist))
    /\ UNCHANGED <<legacyVars, config, once, env, srcKV, srcIndex, dstKV, statusKV, view, dataCh, watchErr,
                   data, onceCount, onceCh, now, errCh, doneCh>>

\* case <-r.maxTimer
SelectMaxTimer ==
    /\ pc = "select"
    /\ Fired(maxTimer)
    /\ minTimer' = NoTimer
    /\ maxTimer' = NoTimer
    /\ BeginRun("maxTimer", TimersCleared(hist))
    /\ UNCHANGED <<legacyVars, config, once, env, srcKV, srcIndex, dstKV, statusKV, view, dataCh, watchErr,
                   data, onceCount, onceCh, now, errCh, doneCh>>

\* case err := <-r.watcher.ErrCh(): the error is sent on r.ErrCh and the select
\* statement ends, so Run is next
SelectWatchErr ==
    /\ pc = "select"
    /\ watchErr
    /\ watchErr' = FALSE
    /\ errCh' = Append(errCh, "watcher")
    /\ BeginRun("watchErr", [hist EXCEPT !.errSeen = TRUE])
    /\ UNCHANGED <<legacyVars, config, once, env, srcKV, srcIndex, dstKV, statusKV, view, dataCh, data,
                   onceCount, onceCh, minTimer, maxTimer, now, doneCh>>

\* case <-r.DoneCh (closed by Stop)
SelectDone ==
    /\ pc = "select"
    /\ doneCh = "closed"
    /\ pc' = "exit"
    /\ UNCHANGED <<legacyVars, config, once, env, srcKV, srcIndex, dstKV, statusKV, view, dataCh, watchErr,
                   data, onceCount, onceCh, minTimer, maxTimer, now, rp, errCh, doneCh,
                   hist>>

\* case <-onceCh
SelectOnce ==
    /\ pc = "select"
    /\ onceCh = 1
    /\ onceCh' = 0
    /\ BeginRun("once", hist)
    /\ UNCHANGED <<legacyVars, config, once, env, srcKV, srcIndex, dstKV, statusKV, view, dataCh, watchErr,
                   data, onceCount, minTimer, maxTimer, now, errCh, doneCh>>

\* a Run that reports an error only when every goroutine has failed
RunErrorsAll == IF \A i \in Prefixes : rp[i].pc = "err" THEN Prefixes ELSE {}

RunErrors == {i \in Prefixes : rp[i].pc = "err"}

\* a Start that stays in its loop after a once-mode Run
ReturnsOnError(failed) == failed
\* a Start that logs the error of a Run and stays in its loop
ReturnsInOnceMode(failed) == once
\* after Run, Start returns on an error and in once mode
ReturnsAfterRun(failed) == failed \/ once

FinishedRun(i) ==
    [ok |-> rp[i].pc = "done" /\ rp[i].lastIndex > 0, lastIndex |-> rp[i].lastIndex]

\* Runner.Run has collected a result from every goroutine and returns; Start
\* sends the error and returns, or in once mode sends on DoneCh and returns, or
\* goes back to the select statement
RunReturn ==
    /\ pc = "run"
    /\ \A i \in Prefixes : rp[i].pc \in {"done", "err"}
    /\ rp' = [i \in Prefixes |-> IdleReplicate]
    /\ hist' = [hist EXCEPT !.last = [i \in Prefixes |-> FinishedRun(i)],
                            !.failed = {rp[i].err : i \in RunErrors},
                            !.ops = InitHist.ops,
                            !.dst0 = InitHist.dst0,
                            !.c0 = InitHist.c0,
                            !.prev = InitHist.prev,
                            !.trigger = InitHist.trigger,
                            !.runAt = InitHist.runAt,
                            !.runFirst = InitHist.runFirst,
                            !.runLast = InitHist.runLast,
                            !.runEvts = InitHist.runEvts]
    /\ IF ~ReturnsAfterRun(RunErrors # {})
       THEN /\ pc' = "select"
            /\ UNCHANGED <<legacyVars, errCh, doneCh>>
       ELSE IF RunErrors # {}
            THEN /\ errCh' = Append(errCh, "run")
                 /\ pc' = "exit"
                 /\ UNCHANGED doneCh
            ELSE /\ pc' = IF doneCh = "closed" THEN "panic" ELSE "exit"
                 /\ doneCh' = IF doneCh = "closed" THEN "closed" ELSE "signalled"
                 /\ UNCHANGED errCh
    /\ UNCHANGED <<legacyVars, config, once, env, srcKV, srcIndex, dstKV, statusKV, view, dataCh, watchErr,
                   data, onceCount, onceCh, minTimer, maxTimer, now>>

\* the Replicators of the Run in progress that have not reported yet
Unfinished ==
    IF pc = "run" THEN {i \in Prefixes : rp[i].pc \notin {"done", "err"}} ELSE {}

\* Runner.Stop, called by CLI.Run in its own goroutine: the watcher stops,
\* DoneCh is closed and Stop returns.  Start is in another goroutine, at the
\* select statement or inside Run, and looks at DoneCh in the select statement
\* only.
Stop ==
    /\ Running
    /\ doneCh = "open"
    /\ doneCh' = "closed"
    /\ hist' = [hist EXCEPT !.stopLeft = Unfinished]
    /\ UNCHANGED <<legacyVars, config, once, env, srcKV, srcIndex, dstKV, statusKV, view, dataCh, watchErr,
                   data, pc, onceCount, onceCh, minTimer, maxTimer, now, rp, errCh>>

\* the process has ended and is started again: NewRunner, with the stores as they are
Restart ==
    /\ pc \in {"exit", "panic"}
    /\ view' = [i \in Prefixes |-> NoView]
    /\ dataCh' = <<>>
    /\ watchErr' = FALSE
    /\ data' = {}
    /\ pc' = "start"
    /\ onceCount' = 0
    /\ onceCh' = 0
    /\ minTimer' = NoTimer
    /\ maxTimer' = NoTimer
    /\ rp' = [i \in Prefixes |-> IdleReplicate]
    /\ errCh' = <<>>
    /\ doneCh' = "open"
    /\ hist' = [InitHist EXCEPT !.last = hist.last]
    /\ UNCHANGED <<legacyVars, config, once, env, srcKV, srcIndex, dstKV, statusKV, now>>

\* the process is killed while Start waits in the select statement
Kill ==
    /\ pc = "select"
    /\ dataCh = <<>>
    /\ pc' = "exit"
    /\ UNCHANGED <<legacyVars, config, once, env, srcKV, srcIndex, dstKV, statusKV, view, dataCh,
                   watchErr, data, onceCount, onceCh, minTimer, maxTimer, now, rp, errCh,
                   doneCh, hist>>

\* CLI.Run receives what Start has sent on ErrCh and returns its exit code:
\* the process ends, wherever Start has got to since
ExitOnError ==
    /\ Running
    /\ errCh # <<>>
    /\ pc' = "exit"
    /\ UNCHANGED <<legacyVars, config, once, env, srcKV, srcIndex, dstKV, statusKV, view, dataCh,
                   watchErr, data, onceCount, onceCh, minTimer, maxTimer, now, rp, errCh,
                   doneCh, hist>>

\* the const block of the exit codes, one ConstSpec per line
ExitCodes ==
    <<"ExitCodeOK", "ExitCodeError", "ExitCodeInterrupt", "ExitCodeParseFlagsError",
      "ExitCodeRunnerError", "ExitCodeConfigError">>

\* Go's iota: the index of the ConstSpec in its const block, from zero
iota(name) == (CHOOSE k \in 1..Len(ExitCodes) : ExitCodes[k] = name) - 1

\* ExitCodeOK int = 0; ExitCodeError = 10 + iota; the ConstSpecs after it
\* repeat that expression
ExitCodeOK == 0
ExitCodeError == 10 + iota("ExitCodeError")
ExitCodeInterrupt == 10 + iota("ExitCodeInterrupt")
ExitCodeParseFlagsError == 10 + iota("ExitCodeParseFlagsError")
ExitCodeRunnerError == 10 + iota("ExitCodeRunnerError")
ExitCodeConfigError == 10 + iota("ExitCodeConfigError")

\* a CLI.Run whose select statement has no case for DoneCh
CLIRunErrCh ==
    IF errCh # <<>> THEN <<ExitCodeRunnerError>>
    ELSE <<>>
\* the select statement of CLI.Run with no signal: the exit code it has
\* returned, <<>> while it waits.  ErrCh and DoneCh are unbuffered, so what
\* Start has sent CLI.Run has received, the error first when there are both.
CLIRun ==
    IF errCh # <<>> THEN <<ExitCodeRunnerError>>
    ELSE IF doneCh = "signalled" THEN <<ExitCodeOK>>
    ELSE <<>>

\* time passes while Start waits in the select statement with nothing to receive
Tick ==
    /\ pc = "select"
    /\ now < MaxTime
    /\ minTimer # NoTimer \/ maxTimer # NoTimer
    /\ dataCh = <<>> /\ ~watchErr /\ onceCh = 0 /\ doneCh # "closed"
    /\ ~Fired(minTimer) /\ ~Fired(maxTimer)
    /\ now' = now + 1
    /\ UNCHANGED <<legacyVars, config, once, env, srcKV, srcIndex, dstKV, statusKV, view, dataCh, watchErr,
                   data, pc, onceCount, onceCh, minTimer, maxTimer, rp, errCh, doneCh,
                   hist>>

--------------------------------------------------------------------------
(* v0.1: Replicator.run, acquireLeadership, watchLock, replicateKeys *)

\* the instances of consul-replicate that share r.conf.Lock
Replicators == {1, 2}

\* r.conf of every instance
LegacyConf ==
    [SourcePrefix |-> config.Prefixes[1].Source,
     DestinationPrefix |-> config.Prefixes[1].Destination,
     Status |-> statusPath(config.Prefixes[1])]

\* an instance that has set up its service and is at ACQUIRE; wrote is history:
\* "held" after writes made with the lock, "lost" after one made without it
StartedReplicator ==
    [pc |-> "acquire", session |-> NoSession, created |-> 0, leaderCh |-> "none",
     watching |-> FALSE, LastReplicated |-> 0, lastIndex |-> 0, pairs |-> <<>>,
     next |-> 1, keys |-> {}, localKeys |-> <<>>, nextKey |-> 1, wrote |-> ""]

\* the v0.1 scenarios: two instances, the first key at the source
InitLegacy ==
    /\ config = Config(<<PrefixBackup>>, <<>>, DefaultStatusDir, 0, 0)
    /\ once = FALSE
    /\ env = LoopEnv
    /\ srcIndex = 1
    /\ srcKV = SrcFirstKey
    /\ dstKV = <<>>
    /\ statusKV = [p \in StatusPaths |-> NoStatus]
    /\ now = 0
    /\ hist = InitHist
    /\ InitStart
    /\ lock = NoSession
    /\ sessions = {}
    /\ replicators = [i \in Replicators |-> StartedReplicator]

runnerVars == <<config, once, env, view, dataCh, watchErr, data, pc, onceCount, onceCh,
                minTimer, maxTimer, now, rp, errCh, doneCh, hist>>

\* strings.Replace(s, old, new, 1)
RECURSIVE ReplaceFirst(_, _, _)
ReplaceFirst(s, old, new) ==
    IF Len(s) < Len(old) THEN s
    ELSE IF HasPrefix(s, old) THEN new \o SubSeq(s, Len(old) + 1, Len(s))
    ELSE SubSeq(s, 1, 1) \o ReplaceFirst(SubSeq(s, 2, Len(s)), old, new)

\* what a PUT or DELETE of instance i leaves in its history
Wrote(i) ==
    IF lock # replicators[i].session \/ replicators[i].wrote = "lost"
    THEN "lost" ELSE "held"

\* the sessions created so far
RECURSIVE SumCreated(_)
SumCreated(is) ==
    IF is = {} THEN 0
    ELSE LET i == CHOOSE i \in is : TRUE
         IN  replicators[i].created + SumCreated(is \ {i})
SessionsCreated == SumCreated(DOMAIN replicators)

\* Consul invalidates a session (a check of its node fails, or an operator
\* destroys it) and releases the lock it holds
SessionInvalidate(s) ==
    /\ s \in sessions
    /\ sessions' = sessions \ {s}
    /\ lock' = IF lock = s THEN NoSession ELSE lock
    /\ UNCHANGED <<runnerVars, srcKV, srcIndex, dstKV, statusKV, replicators>>

\* acquireLeadership: "Create a new session"
LSessionCreate(i) ==
    /\ replicators[i].pc = "acquire"
    /\ SessionsCreated < MaxSessions
    /\ LET id == <<i, replicators[i].created + 1>>
       IN  /\ sessions' = sessions \cup {id}
           /\ replicators' = [replicators EXCEPT ![i].pc = "wait", ![i].session = id,
                                                  ![i].created = @ + 1,
                                                  ![i].leaderCh = "none"]
    /\ UNCHANGED <<runnerVars, srcKV, srcIndex, dstKV, statusKV, lock>>

\* acquireLeadership: "Look for an existing lock, blocking until not taken"
LLockGet(i) ==
    /\ replicators[i].pc = "wait"
    /\ lock = NoSession
    /\ replicators' = [replicators EXCEPT ![i].pc = "try"]
    /\ UNCHANGED <<runnerVars, srcKV, srcIndex, dstKV, statusKV, lock, sessions>>

\* acquireLeadership: "Try to acquire the lock"; an invalidated session is an
\* error and run returns; a taken lock sends the instance back to WAIT
LLockAcquire(i) ==
    /\ replicators[i].pc = "try"
    /\ IF replicators[i].session \notin sessions
       THEN /\ replicators' = [replicators EXCEPT ![i].pc = "done"]
            /\ UNCHANGED lock
       ELSE IF lock = NoSession
       THEN /\ lock' = replicators[i].session
            /\ replicators' = [replicators EXCEPT ![i].pc = "status",
                                                   ![i].leaderCh = "open",
                                                   ![i].watching = TRUE]
       ELSE /\ replicators' = [replicators EXCEPT ![i].pc = "wait"]
            /\ UNCHANGED lock
    /\ UNCHANGED <<runnerVars, srcKV, srcIndex, dstKV, statusKV, sessions>>

\* watchLock: the lock is no longer held by the session: close(stopCh)
LWatchLock(i) ==
    /\ replicators[i].watching
    /\ lock # replicators[i].session
    /\ replicators' = [replicators EXCEPT ![i].watching = FALSE, ![i].leaderCh = "closed"]
    /\ UNCHANGED <<runnerVars, srcKV, srcIndex, dstKV, statusKV, lock, sessions>>

\* replicateKeys: "Read our last status"
LReadStatus(i) ==
    /\ replicators[i].pc = "status"
    /\ replicators' = [replicators EXCEPT
           ![i].pc = "list",
           ![i].LastReplicated = statusKV[LegacyConf.Status].LastReplicated]
    /\ UNCHANGED <<runnerVars, srcKV, srcIndex, dstKV, statusKV, lock, sessions>>

\* replicateKeys at WAIT: return when leaderCh is closed (run goes to ACQUIRE),
\* else list the source until its index differs from status.LastReplicated
LList(i) ==
    /\ replicators[i].pc = "list"
    /\ IF replicators[i].leaderCh = "closed"
       THEN replicators' = [replicators EXCEPT ![i].pc = "acquire"]
       ELSE /\ srcIndex # replicators[i].LastReplicated
            /\ replicators' = [replicators EXCEPT
                   ![i].pc = "check",
                   ![i].pairs = SrcList(LegacyConf.SourcePrefix),
                   ![i].lastIndex = srcIndex]
    /\ UNCHANGED <<runnerVars, srcKV, srcIndex, dstKV, statusKV, lock, sessions>>

\* replicateKeys: the shouldQuit(leaderCh) after the list
LCheck(i) ==
    /\ replicators[i].pc = "check"
    /\ replicators' = [replicators EXCEPT
           ![i].pc = IF replicators[i].leaderCh = "closed" THEN "acquire" ELSE "update",
           ![i].next = 1, ![i].keys = {}]
    /\ UNCHANGED <<runnerVars, srcKV, srcIndex, dstKV, statusKV, lock, sessions>>

\* the key of a pair at the destination
LegacyKey(path) ==
    IF LegacyConf.SourcePrefix # LegacyConf.DestinationPrefix
    THEN ReplaceFirst(path, LegacyConf.SourcePrefix, LegacyConf.DestinationPrefix)
    ELSE path

\* replicateKeys: "Update any key that recently updated", one pair
LUpdate(i) ==
    /\ replicators[i].pc = "update"
    /\ replicators[i].next <= Len(replicators[i].pairs)
    /\ LET pair == replicators[i].pairs[replicators[i].next]
           key == LegacyKey(pair.Path)
       IN  IF pair.ModifyIndex <= replicators[i].LastReplicated
           THEN /\ replicators' = [replicators EXCEPT ![i].next = @ + 1,
                                                       ![i].keys = @ \cup {key}]
                /\ UNCHANGED dstKV
           ELSE /\ dstKV' = KVPut(dstKV, key,
                                  [Value |-> pair.Value, Flags |-> pair.Flags,
                                   Session |-> ""])
                /\ replicators' = [replicators EXCEPT ![i].next = @ + 1,
                                                       ![i].keys = @ \cup {key},
                                                       ![i].wrote = Wrote(i)]
    /\ UNCHANGED <<runnerVars, srcKV, srcIndex, statusKV, lock, sessions>>

\* replicateKeys: "Handle any deletes": kv.Keys(r.conf.DestinationPrefix)
LKeys(i) ==
    /\ replicators[i].pc = "update"
    /\ replicators[i].next > Len(replicators[i].pairs)
    /\ replicators' = [replicators EXCEPT
           ![i].pc = "delete",
           ![i].localKeys = SelectKeys(DstKeyOrder,
               {k \in DOMAIN dstKV : HasPrefix(k, LegacyConf.DestinationPrefix)}),
           ![i].nextKey = 1]
    /\ UNCHANGED <<runnerVars, srcKV, srcIndex, dstKV, statusKV, lock, sessions>>

\* replicateKeys: one key of the delete loop
LDelete(i) ==
    /\ replicators[i].pc = "delete"
    /\ replicators[i].nextKey <= Len(replicators[i].localKeys)
    /\ LET key == replicators[i].localKeys[replicators[i].nextKey]
       IN  IF key \in replicators[i].keys
           THEN /\ replicators' = [replicators EXCEPT ![i].nextKey = @ + 1]
                /\ UNCHANGED dstKV
           ELSE /\ dstKV' = KVDelete(dstKV, key)
                /\ replicators' = [replicators EXCEPT ![i].nextKey = @ + 1,
                                                       ![i].wrote = Wrote(i)]
    /\ UNCHANGED <<runnerVars, srcKV, srcIndex, statusKV, lock, sessions>>

\* replicateKeys: "Update our status", then goto WAIT
LWriteStatus(i) ==
    /\ replicators[i].pc = "delete"
    /\ replicators[i].nextKey > Len(replicators[i].localKeys)
    /\ statusKV' = [statusKV EXCEPT ![LegacyConf.Status] =
           [present |-> TRUE, valid |-> TRUE,
            LastReplicated |-> replicators[i].lastIndex,
            Source |-> "", Destination |-> ""]]
    /\ replicators' = [replicators EXCEPT
           ![i].pc = "list", ![i].LastReplicated = replicators[i].lastIndex,
           ![i].pairs = <<>>, ![i].next = 1, ![i].keys = {}, ![i].localKeys = <<>>,
           ![i].nextKey = 1]
    /\ UNCHANGED <<runnerVars, srcKV, srcIndex, dstKV, lock, sessions>>

--------------------------------------------------------------------------
(* Specifications *)

Environment ==
    \/ \E k \in env.srcKeys, payload \in env.payloads : SrcWrite(k, payload)
    \/ \E k \in env.srcKeys : SrcDelete(k)
    \/ \E k \in ExternalKeys : DstPut(k)
    \/ \E k \in ExternalKeys : DstDelete(k)
    \/ \E i \in Prefixes : Poll(i)
    \/ Restart

\* replication with quiescence off, in daemon mode
Next ==
    \/ Environment
    \/ Start
    \/ SelectDataRun
    \/ \E i \in Prefixes : Replicate(i)
    \/ RunReturn
    \/ Kill

Spec == Init /\ [][Next]_vars

SpecExclude == InitExclude /\ [][Next]_vars

SpecMatch == InitMatch /\ [][Next]_vars

\* the daemon with no RPC failure, no signal and no operator at the destination
NextLive ==
    \/ \E k \in env.srcKeys, payload \in env.payloads : SrcWrite(k, payload)
    \/ \E k \in env.srcKeys : SrcDelete(k)
    \/ \E i \in Prefixes : Poll(i)
    \/ Start
    \/ SelectDataRun
    \/ \E i \in Prefixes : ReplicateOK(i)
    \/ RunReturn

\* the pollers and Start are goroutines that the scheduler runs when they can
\* take a step: a poll returns, the select statement takes a ready case, an
\* RPC answers, Run returns
FairLive ==
    /\ WF_vars(\E i \in 1..1 : Poll(i))
    /\ WF_vars(Start)
    /\ WF_vars(SelectDataRun)
    /\ WF_vars(\E i \in 1..1 : ReplicateOK(i))
    /\ WF_vars(RunReturn)

SpecLive == InitLive /\ [][NextLive]_vars /\ FairLive

\* two prefixes with overlapping destinations, replicated by the live daemon
SpecNested == InitNested /\ [][NextLive]_vars

\* global@dc1:x-backup and global-x@dc1:backup: source-destination reads
\* global-x-backup for both
PrefixDashDestination == Prefix("global", "dc1", "x-backup")
PrefixDashSource == Prefix("global-x", "dc1", "backup")

\* the scenarios of two prefixes with one status path
CollideConfigs ==
    {Config(<<PrefixDashDestination, PrefixDashSource>>, <<>>, DefaultStatusDir, 0, 0)}

\* one process that starts with no Status Record
InitFresh ==
    /\ config \in ReplConfigs
    /\ once = FALSE
    /\ env = ReplEnv
    /\ srcIndex = 1
    /\ srcKV \in {SrcEmpty, SrcFirstKey}
    /\ dstKV = <<>>
    /\ statusKV = [p \in StatusPaths |-> NoStatus]
    /\ now = 0
    /\ hist = InitHist
    /\ InitRunner

\* the daemon, RPC failures and operators included, until its process ends
NextFresh ==
    \/ \E k \in env.srcKeys, payload \in env.payloads : SrcWrite(k, payload)
    \/ \E k \in env.srcKeys : SrcDelete(k)
    \/ \E k \in ExternalKeys : DstPut(k)
    \/ \E k \in ExternalKeys : DstDelete(k)
    \/ \E i \in Prefixes : Poll(i)
    \/ Start
    \/ SelectDataRun
    \/ \E i \in Prefixes : Replicate(i)
    \/ RunReturn
    \/ Kill

SpecFresh == InitFresh /\ [][NextFresh]_vars

\* one process that starts with no Status Record; its two prefixes have one
\* status path
InitCollide ==
    /\ config \in CollideConfigs
    /\ once = FALSE
    /\ env = ReplEnv
    /\ srcIndex = 1
    /\ srcKV \in {SrcEmpty, SrcFirstKey}
    /\ dstKV = <<>>
    /\ statusKV = [p \in StatusPaths |-> NoStatus]
    /\ now = 0
    /\ hist = InitHist
    /\ InitRunner

\* the two prefixes replicated by the live daemon
SpecCollide == InitCollide /\ [][NextLive]_vars

\* v0.1: the instances that share a lock, the writers of the source, and
\* Consul invalidating sessions
NextLegacy ==
    \/ \E k \in env.srcKeys, payload \in env.payloads : SrcWrite(k, payload)
    \/ \E k \in env.srcKeys : SrcDelete(k)
    \/ \E s \in sessions : SessionInvalidate(s)
    \/ \E i \in Replicators : LSessionCreate(i)
    \/ \E i \in Replicators : LLockGet(i)
    \/ \E i \in Replicators : LLockAcquire(i)
    \/ \E i \in Replicators : LWatchLock(i)
    \/ \E i \in Replicators : LReadStatus(i)
    \/ \E i \in Replicators : LList(i)
    \/ \E i \in Replicators : LCheck(i)
    \/ \E i \in Replicators : LUpdate(i)
    \/ \E i \in Replicators : LKeys(i)
    \/ \E i \in Replicators : LDelete(i)
    \/ \E i \in Replicators : LWriteStatus(i)

SpecLegacy == InitLegacy /\ [][NextLegacy]_vars

\* the same program with locks, semaphores and sessions at the source
SpecPayload == InitPayload /\ [][Next]_vars

\* the -prefix flag: the argument is parsed
ParsePrefix ==
    /\ "arg" \in DOMAIN env
    /\ env.parsed = <<>>
    /\ env' = [env EXCEPT !.parsed = <<ParsePrefixConfig(env.arg)>>]
    /\ UNCHANGED <<legacyVars, config, once, srcKV, srcIndex, dstKV, statusKV, view, dataCh, watchErr,
                   data, pc, onceCount, onceCh, minTimer, maxTimer, now, rp, errCh, doneCh,
                   hist>>

NextParse == ParsePrefix

SpecParse == InitParse /\ [][NextParse]_vars

\* getStatus or setStatus computes the Status Record path of the next prefix
StatusPathOf ==
    /\ "paths" \in DOMAIN env
    /\ Len(env.paths) < Len(config.Prefixes)
    /\ env' = [env EXCEPT !.paths = Append(@, statusPath(config.Prefixes[Len(@) + 1]))]
    /\ UNCHANGED <<legacyVars, config, once, srcKV, srcIndex, dstKV, statusKV, view, dataCh, watchErr,
                   data, pc, onceCount, onceCh, minTimer, maxTimer, now, rp, errCh, doneCh,
                   hist>>

NextStatusPath == StatusPathOf

SpecStatusPath == InitStatusPath /\ [][NextStatusPath]_vars

\* the pollers of the watcher and their retries, in daemon mode
NextRetry ==
    \/ \E k \in env.srcKeys, payload \in env.payloads : SrcWrite(k, payload)
    \/ \E i \in Prefixes : Poll(i)
    \/ \E i \in Prefixes : PollFail(i)
    \/ Start
    \/ SelectDataRun
    \/ SelectWatchErr
    \/ \E i \in Prefixes : Replicate(i)
    \/ RunReturn

SpecRetry == InitRetry /\ [][NextRetry]_vars

\* the event loop of Start: quiescence timers, once mode, watcher errors, Stop
NextLoop ==
    \/ \E k \in env.srcKeys, payload \in env.payloads : SrcWrite(k, payload)
    \/ \E k \in env.srcKeys : SrcDelete(k)
    \/ \E i \in Prefixes : Poll(i)
    \/ \E i \in Prefixes : PollGiveUp(i)
    \/ Start
    \/ OnceReceive
    \/ OnceWatchErr
    \/ SelectDataWait
    \/ SelectDataRun
    \/ SelectMinTimer
    \/ SelectMaxTimer
    \/ SelectWatchErr
    \/ SelectDone
    \/ SelectOnce
    \/ \E i \in Prefixes : Replicate(i)
    \/ RunReturn
    \/ Stop
    \/ ExitOnError
    \/ Tick

SpecLoop == InitLoop /\ [][NextLoop]_vars

--------------------------------------------------------------------------
(* The vocabulary of the properties *)

\* the path has an exclude-source as a string prefix
HasExcludePrefix(path) ==
    \E n \in DOMAIN config.Excludes : HasPrefix(path, config.Excludes[n])

\* dst_key = prefix.destination + strip_prefix(path, prefix.source)
Rewritten(prefix, path) == prefix.Destination \o TrimPrefix(path, prefix.Source)

\* the source path whose rewritten key is the destination key
Counterpart(prefix, key) == prefix.Source \o TrimPrefix(key, prefix.Destination)

\* the Run of prefix i has issued this RPC for this key
Issued(i, op, key) ==
    \E n \in DOMAIN hist.ops[i] : hist.ops[i][n].op = op /\ hist.ops[i][n].key = key

\* the Run of prefix i has issued this RPC for this key, and it failed
IssuedAndFailed(i, op, key) ==
    \E n \in DOMAIN hist.ops[i] :
        hist.ops[i][n].op = op /\ hist.ops[i][n].key = key /\ ~hist.ops[i][n].ok

\* the Replicator of prefix i has observed its View in the current Run
Observed(i) == pc = "run" /\ rp[i].lastIndex > 0

\* the Run of prefix i is over
RunOver(i) == Observed(i) /\ rp[i].pc \in {"done", "err"}

\* the Run of prefix i is over and has succeeded
RunSucceeded(i) == Observed(i) /\ rp[i].pc = "done"

\* the n-th pair of the observed View is new to the checkpoint and not excluded
Qualifies(i, n) ==
    /\ rp[i].pairs[n].ModifyIndex > rp[i].status.LastReplicated
    /\ ~HasExcludePrefix(rp[i].pairs[n].Path)

\* the replicated keys under a destination (Status Records are not counted)
KeysUnder(keys, destination) ==
    {k \in keys \ StatusPaths : HasPrefix(k, destination)}

\* the rewritten keys of the pairs of the observed View that satisfy keep
RewrittenKeys(i, keep(_)) ==
    {Rewritten(config.Prefixes[i], rp[i].pairs[n].Path) :
        n \in {m \in DOMAIN rp[i].pairs : keep(m)}}

--------------------------------------------------------------------------
(* Replication: properties of Spec *)

\* C1: a successful Run never lowers the checkpoint: the LastReplicated that
\* is persisted when the Run is done is at least the one persisted when the
\* Run began.
C1_MonotoneCheckpoint ==
    \A i \in Prefixes :
        (pc = "run" /\ rp[i].pc = "done") => PersistedIndex(i) >= hist.c0[i]

\* a Run that began with a checkpoint above zero is done and has raised it
C1_Witness ==
    \E i \in Prefixes :
        RunSucceeded(i) /\ hist.c0[i] > 0 /\ PersistedIndex(i) > hist.c0[i]

\* C2 as stated: when the Run of a prefix is over, a PUT of the rewritten key
\* has been issued for every pair of the observed View whose ModifyIndex is
\* above the LastReplicated that was read and whose path has no exclude-source
\* as a prefix.
C2_PutForEveryPair ==
    \A i \in Prefixes :
        RunOver(i) =>
            \A n \in DOMAIN rp[i].pairs :
                Qualifies(i, n) =>
                    Issued(i, "PUT", Rewritten(config.Prefixes[i], rp[i].pairs[n].Path))

\* C2 (amended): ... for every such pair a PUT of the rewritten key has been
\* issued, unless the PUT of an earlier such pair of the View failed (which
\* ends the Run).
C2_PutUnlessAborted ==
    \A i \in Prefixes :
        RunOver(i) =>
            \A n \in DOMAIN rp[i].pairs :
                Qualifies(i, n) =>
                    \/ Issued(i, "PUT", Rewritten(config.Prefixes[i], rp[i].pairs[n].Path))
                    \/ \E m \in 1..(n - 1) :
                           /\ Qualifies(i, m)
                           /\ IssuedAndFailed(i, "PUT",
                                  Rewritten(config.Prefixes[i], rp[i].pairs[m].Path))

\* a Run is over whose View had two such pairs, and a PUT was issued for both
C2_Witness ==
    \E i \in Prefixes :
        /\ RunOver(i)
        /\ Len(rp[i].pairs) = 2
        /\ \A n \in DOMAIN rp[i].pairs :
               /\ Qualifies(i, n)
               /\ Issued(i, "PUT", Rewritten(config.Prefixes[i], rp[i].pairs[n].Path))

\* C3 as stated: no Run issues a PUT or a DELETE of the destination
\* counterpart of a source path that starts with an exclude-source.
C3_ExcludeSymmetry ==
    \A i \in Prefixes :
        \A n \in DOMAIN hist.ops[i] :
            (/\ hist.ops[i][n].op \in {"PUT", "DELETE"}
             /\ HasPrefix(hist.ops[i][n].key, config.Prefixes[i].Destination))
                => ~HasExcludePrefix(Counterpart(config.Prefixes[i], hist.ops[i][n].key))

C5_IdempotentRun ==
    \A i \in Prefixes :
        (Observed(i) /\ hist.prev[i].ok /\ hist.prev[i].lastIndex = rp[i].lastIndex)
            => \A n \in DOMAIN hist.ops[i] : hist.ops[i][n].op \notin {"PUT", "DELETE"}

C15_ExitCodeValues ==
    /\ ExitCodeOK = 0
    /\ ExitCodeError = 10
    /\ ExitCodeInterrupt = 11
    /\ ExitCodeParseFlagsError = 12
    /\ ExitCodeRunnerError = 13
    /\ ExitCodeConfigError = 14
    /\ errCh # <<>> => CLIRun = <<13>>

InvalidStatus(i) ==
    LET stored == statusKV[statusPath(config.Prefixes[i])]
    IN  stored.present /\ ~stored.valid

WriteFailed(i) ==
    \E n \in DOMAIN hist.ops[i] :
        hist.ops[i][n].op \in {"PUT", "LIST", "DELETE"} /\ ~hist.ops[i][n].ok

\* C24 as stated: a Run of a prefix in which a PUT, the LIST or a DELETE failed issues
\* no Status Record write, and the persisted LastReplicated is the one of
\* before the Run.
C24_NoCheckpointAfterFailure ==
    \A i \in Prefixes :
        WriteFailed(i) =>
            /\ \A n \in DOMAIN hist.ops[i] : hist.ops[i][n].op # "STATUS"
            /\ PersistedIndex(i) = hist.c0[i]

\* C25: among the RPCs of one Run of one prefix every PUT comes before the
\* LIST of the destination and before every DELETE, and the Status Record
\* write comes after all of them.
C25_PhaseOrder ==
    \A i \in Prefixes :
        \A m, n \in DOMAIN hist.ops[i] :
            /\ (/\ hist.ops[i][m].op = "PUT"
                /\ hist.ops[i][n].op \in {"LIST", "DELETE"}) => m < n
            /\ (/\ hist.ops[i][m].op \in {"PUT", "LIST", "DELETE"}
                /\ hist.ops[i][n].op = "STATUS") => m < n

\* a Run is done that issued a PUT, the LIST, a DELETE and the Status Record
\* write
C25_Witness ==
    \E i \in Prefixes :
        /\ RunSucceeded(i)
        /\ \A o \in {"PUT", "LIST", "DELETE", "STATUS"} :
               \E n \in DOMAIN hist.ops[i] : hist.ops[i][n].op = o

\* C27: a Run issues no PUT for a pair of the observed View whose ModifyIndex
\* is at or below the LastReplicated it read, whether or not the destination
\* holds the pair's rewritten key.
C27_OldPairsSkipped ==
    \A i \in Prefixes :
        Observed(i) =>
            \A n \in DOMAIN rp[i].pairs :
                rp[i].pairs[n].ModifyIndex <= rp[i].status.LastReplicated =>
                    ~Issued(i, "PUT", Rewritten(config.Prefixes[i], rp[i].pairs[n].Path))

\* a successful Run has left out a non-excluded pair at the checkpoint's index
\* whose rewritten key the destination lacks
C27_Witness ==
    \E i \in Prefixes :
        /\ RunSucceeded(i)
        /\ \E n \in DOMAIN rp[i].pairs :
               /\ rp[i].pairs[n].ModifyIndex = rp[i].status.LastReplicated
               /\ ~HasExcludePrefix(rp[i].pairs[n].Path)
               /\ Rewritten(config.Prefixes[i], rp[i].pairs[n].Path)
                      \notin hist.dst0 \cup DOMAIN dstKV

--------------------------------------------------------------------------
(* Status Record paths: properties of SpecStatusPath *)

\* C29 as stated: two prefixes that differ in source or in destination have
\* different Status Record paths (md5 taken as injective).
C29_DistinctStatusPaths ==
    (/\ Len(env.paths) = 2
     /\ <<config.Prefixes[1].Source, config.Prefixes[1].Destination>>
            # <<config.Prefixes[2].Source, config.Prefixes[2].Destination>>)
        => env.paths[1] # env.paths[2]

--------------------------------------------------------------------------
(* Runs without a View: properties of SpecLoop *)

\* the Replicator of prefix i has ended in a Run for which the Runner holds no
\* View of the prefix
EndedWithoutView(i) == pc = "run" /\ i \notin data /\ rp[i].pc \in {"done", "err"}

\* such a Replicator has issued no PUT, no DELETE and no Status Record write,
\* and the keys under the destination and the checkpoint are those of before
NothingWritten(i) ==
    /\ hist.ops[i] = <<>>
    /\ KeysUnder(DOMAIN dstKV, config.Prefixes[i].Destination)
           = KeysUnder(hist.dst0, config.Prefixes[i].Destination)
    /\ PersistedIndex(i) = hist.c0[i]

\* C28 as stated: a Replicator that runs while the Runner holds no View for
\* its prefix reports done without error and writes nothing.
C28_NoViewDone ==
    \A i \in Prefixes :
        EndedWithoutView(i) => (rp[i].pc = "done" /\ NothingWritten(i))

\* C28 (amended): a Replicator that runs while the Runner holds no View for
\* its prefix reports done, unless the agent query, the self-replication guard
\* or the read of the Status Record has ended it with an error; in either case
\* it writes nothing.
C28_NoViewDoneOrEarlyError ==
    \A i \in Prefixes :
        EndedWithoutView(i) =>
            /\ \/ rp[i].pc = "done"
               \/ rp[i].err \in {ErrAgent, ErrSelf, ErrStatus, ErrStatusJSON}
            /\ NothingWritten(i)

\* a Replicator has reported done without a View while the source holds a key
\* under its prefix
C28_Witness ==
    \E i \in Prefixes :
        /\ EndedWithoutView(i) /\ rp[i].pc = "done"
        /\ \E k \in Range(SrcKeyOrder) :
               srcKV[k].ModifyIndex > 0 /\ HasPrefix(k, config.Prefixes[i].Source)

--------------------------------------------------------------------------
(* Excludes and the delete pass: properties of SpecExclude *)

\* C26 as stated: after a successful Run every key that the destination listed
\* under the prefix's destination, that is the rewritten key of no pair of the
\* observed View and whose source counterpart is under no exclude, has been
\* deleted.
C26_UnusedKeysDeleted ==
    \A i \in Prefixes :
        RunSucceeded(i) =>
            \A n \in DOMAIN rp[i].localKeys :
                LET d == rp[i].localKeys[n]
                IN  (/\ d \notin RewrittenKeys(i, LAMBDA m : TRUE)
                     /\ ~HasExcludePrefix(Counterpart(config.Prefixes[i], d)))
                        => \E m \in DOMAIN hist.ops[i] :
                               /\ hist.ops[i][m].op = "DELETE"
                               /\ hist.ops[i][m].key = d
                               /\ hist.ops[i][m].ok

--------------------------------------------------------------------------
(* Live replication: properties of SpecLive *)

\* key k of the source was last written at index n, after the process began,
\* and lies under the source of prefix i and under no exclude
LiveWrite(i, k, n) ==
    /\ i \in Prefixes
    /\ srcKV[k].ModifyIndex = n
    /\ HasPrefix(k, config.Prefixes[i].Source)
    /\ ~HasExcludePrefix(k)

\* the rewritten key of k holds at the destination what k holds at the source
Mirrored(i, k) ==
    LET d == Rewritten(config.Prefixes[i], k)
    IN  /\ d \in DOMAIN dstKV
        /\ dstKV[d].Value = srcKV[k].Payload.Value
        /\ dstKV[d].Flags = srcKV[k].Payload.Flags

\* C22: a write to a non-excluded key under the source of a prefix is
\* eventually followed by a state in which the rewritten key holds that value
\* at the destination, unless the key has been written again or deleted at the
\* source by then.
C22_LiveUpdate ==
    \A i \in 1..1 : \A k \in Range(SrcKeyOrder) : \A n \in 2..MaxIndex :
        LiveWrite(i, k, n) ~> (Mirrored(i, k) \/ srcKV[k].ModifyIndex # n)

\* a Run has PUT a key that was written while the daemon was running
C22_Witness ==
    \E i \in Prefixes : \E k \in Range(SrcKeyOrder) :
        /\ \E n \in 2..MaxIndex : LiveWrite(i, k, n)
        /\ pc = "run"
        /\ hist.ops[i] # <<>>
        /\ hist.ops[i][Len(hist.ops[i])] =
               Op("PUT", Rewritten(config.Prefixes[i], k), TRUE, PutBody(srcKV[k].Payload))
        /\ Mirrored(i, k)

--------------------------------------------------------------------------
(* v0.1: properties of SpecLegacy *)

\* instance i is between the first PUT and the last DELETE of a pass
InPass(i) == replicators[i].pc \in {"update", "delete"}

\* C23 as stated: an instance issues a PUT or DELETE only while its own
\* session holds the lock, so at most one instance at a time is in the writing
\* part of a pass.
C23_SingleWriter ==
    /\ \A i \in DOMAIN replicators : replicators[i].wrote # "lost"
    /\ \A i, j \in DOMAIN replicators : (InPass(i) /\ InPass(j)) => i = j

--------------------------------------------------------------------------
(* Payloads: properties of SpecPayload *)

\* the n-th RPC of the Run of prefix i is the PUT of the m-th observed pair
PutOf(i, n, m) ==
    /\ hist.ops[i][n].op = "PUT"
    /\ hist.ops[i][n].key = DestinationKey(config.Prefixes[i], rp[i].pairs[m].Path)

\* C17: every PUT of a Run is the PUT of an observed pair and carries that
\* pair's value and that pair's flags, lock and semaphore flags included; a
\* PUT that succeeded has left them at the destination.
C17_ValueAndFlags ==
    \A i \in Prefixes : \A n \in DOMAIN hist.ops[i] :
        hist.ops[i][n].op = "PUT" =>
            \E m \in DOMAIN rp[i].pairs :
                /\ PutOf(i, n, m)
                /\ hist.ops[i][n].body.Value = rp[i].pairs[m].Value
                /\ hist.ops[i][n].body.Flags = rp[i].pairs[m].Flags
                /\ (hist.ops[i][n].ok /\ n = Len(hist.ops[i])) =>
                       /\ dstKV[hist.ops[i][n].key].Value = rp[i].pairs[m].Value
                       /\ dstKV[hist.ops[i][n].key].Flags = rp[i].pairs[m].Flags

\* a pair with the lock flag (with the semaphore flag in another state) has
\* been PUT with it
C17_Witness ==
    \E i \in Prefixes : \E n \in DOMAIN hist.ops[i] :
        /\ hist.ops[i][n].op = "PUT" /\ hist.ops[i][n].ok
        /\ hist.ops[i][n].body.Flags \in {LockFlagValue, SemaphoreFlagValue}
        /\ hist.ops[i][n].body.Value # PlainPayload.Value

\* C18: an observed pair with a session, new to the checkpoint and not
\* excluded, that the update loop has got past has been PUT, and every PUT
\* carries an empty session.
C18_SessionDropped ==
    \A i \in Prefixes :
        /\ \A m \in DOMAIN rp[i].pairs :
               (pc = "run" /\ rp[i].pc \in {"update", "delete", "done"} /\ m < rp[i].next
                   /\ rp[i].pairs[m].Session # "" /\ Qualifies(i, m))
                   => \E n \in DOMAIN hist.ops[i] : PutOf(i, n, m) /\ hist.ops[i][n].ok
        /\ \A n \in DOMAIN hist.ops[i] :
               hist.ops[i][n].op = "PUT" => hist.ops[i][n].body.Session = ""

\* a pair with a session and no lock flag has been PUT, without the session
C18_Witness ==
    \E i \in Prefixes : \E n \in DOMAIN hist.ops[i], m \in DOMAIN rp[i].pairs :
        /\ PutOf(i, n, m) /\ hist.ops[i][n].ok
        /\ rp[i].pairs[m].Session # "" /\ rp[i].pairs[m].Flags = PlainPayload.Flags
        /\ hist.ops[i][n].body.Session = ""
        /\ rp[i].pc = "done"

\* C21 as stated: with -delete=false no Run issues a DELETE; with -delete=true
\* a Replicator that is done has listed the destination.
C21_DeleteOption ==
    \A i \in Prefixes :
        /\ ~config.DeleteKey =>
               \A n \in DOMAIN hist.ops[i] : hist.ops[i][n].op # "DELETE"
        /\ (config.DeleteKey /\ RunSucceeded(i)) =>
               \E n \in DOMAIN hist.ops[i] : hist.ops[i][n].op = "LIST"

--------------------------------------------------------------------------
(* ParsePrefixConfig: properties of SpecParse *)

\* C20: the parsed argument is an error exactly when it is white space only
\* or its source part lacks a prefix, the "@" or a datacenter; otherwise the
\* source is the prefix without the leading "/", the datacenter is what
\* follows the "@", and the destination is what follows the first ":", or the
\* source when nothing does.  The table of TestPrefixConfig is as expected.
C20_ParsePrefixConfig ==
    env.parsed # <<>> =>
        LET p == env.parsed[1]
        IN  /\ env.parts # <<>> =>
                   LET prefix == env.parts[2]
                       at == env.parts[3]
                       dc == env.parts[4]
                       rest == env.parts[5]
                       bad == \/ IsSpace(env.arg)
                              \/ prefix = "" \/ at = "" \/ dc = ""
                   IN  /\ (p.err # "") <=> bad
                       /\ ~bad =>
                              /\ p.Source = prefix
                              /\ p.Datacenter = dc
                              /\ p.Destination =
                                     IF rest \in {"", ":"} THEN prefix
                                     ELSE SubSeq(rest, 2, Len(rest))
            /\ \A tc \in TestPrefixConfig : env.arg = tc[1] => ((p.err # "") <=> tc[2])
            /\ p.err # "" => p = PrefixError(p.err)

\* "/a/b@dc1:b:c@x" has been parsed: source a/b, datacenter dc1, destination
\* b:c@x
C20_Witness ==
    /\ env.parsed # <<>>
    /\ env.arg = "/a/b@dc1:b:c@x"
    /\ env.parsed[1] = [err |-> "", Source |-> "a/b", Datacenter |-> "dc1",
                        Destination |-> "b:c@x"]

--------------------------------------------------------------------------
(* The watcher's retries: properties of SpecRetry *)

--------------------------------------------------------------------------
(* The event loop: properties of SpecLoop *)

TimeOf(timer) == CHOOSE t \in timer : TRUE

Earlier(a, b) == IF a <= b THEN a ELSE b

\* the current Run was begun by a quiescence timer
TimerRun == pc = "run" /\ hist.trigger \in {"minTimer", "maxTimer"}

\* ... for two data events that came less than min apart
TwoEventRun ==
    /\ TimerRun
    /\ hist.runEvts = 2
    /\ TimeOf(hist.runLast) - TimeOf(hist.runFirst) < config.WaitMin

\* C7 as stated: the one Run of two data events less than min apart starts no
\* earlier than min after the later event and no later than max after the
\* earlier one.
C7_Debounce ==
    TwoEventRun =>
        /\ hist.runAt >= TimeOf(hist.runLast) + config.WaitMin
        /\ hist.runAt <= TimeOf(hist.runFirst) + config.WaitMax
        /\ minTimer = NoTimer /\ maxTimer = NoTimer

\* C7 (amended): the one Run of two data events less than min apart starts at
\* the earlier of two instants: min after the later event, max after the
\* earlier event.  Both timers are cleared, so the two events get no other Run.
C7_DebounceEarlierTimer ==
    TwoEventRun =>
        /\ hist.runAt = Earlier(TimeOf(hist.runLast) + config.WaitMin,
                                TimeOf(hist.runFirst) + config.WaitMax)
        /\ minTimer = NoTimer /\ maxTimer = NoTimer

\* the Run of two such events began at max after the earlier event, before
\* min after the later one
C7_Witness ==
    /\ TwoEventRun
    /\ TimeOf(hist.runLast) > TimeOf(hist.runFirst)
    /\ hist.runAt = TimeOf(hist.runFirst) + config.WaitMax
    /\ hist.runAt < TimeOf(hist.runLast) + config.WaitMin

\* C8: with min or max zero no timer is ever armed and no data event is left
\* waiting: the step that receives it begins the Run.
C8_GateDisabled ==
    (config.WaitMin = 0 \/ config.WaitMax = 0) =>
        /\ minTimer = NoTimer /\ maxTimer = NoTimer
        /\ ~hist.pending
        /\ hist.trigger \notin {"minTimer", "maxTimer"}

\* with only one of the two durations zero, a data event has begun a Run
C8_Witness ==
    /\ config.WaitMin = 0 /\ config.WaitMax # 0
    /\ pc = "run" /\ hist.trigger = "data"

\* C9: in once mode no Run begins before one View per prefix has been
\* received, there is one Run at most, Start does not go back to its loop
\* after it, and when it has succeeded (and Stop has not closed DoneCh) Start
\* has signalled done.
C9_OnceMode ==
    once =>
        /\ hist.runs >= 1 => hist.received >= Len(config.Prefixes)
        /\ hist.runs <= 1
        /\ hist.runs = 1 => pc \in {"run", "exit", "panic"}
        /\ (pc # "run" /\ hist.runs = 1 /\ errCh = <<>> /\ doneCh # "closed")
               => (pc = "exit" /\ doneCh = "signalled")

\* once mode with two prefixes: the one Run has succeeded and done is signalled
C9_Witness ==
    /\ once /\ Len(config.Prefixes) = 2
    /\ hist.runs = 1 /\ hist.received = 2
    /\ pc = "exit" /\ doneCh = "signalled"
    /\ \A i \in Prefixes : hist.last[i].ok

\* C16: in once mode with no signal, CLI.Run has returned 0 when the one Run
\* is over with every Replicator done and no watcher error before it, and has
\* returned a code that is not 0 when a Replicator of that Run has reported an
\* error or Start has received a watcher error before the Run.
C16_OnceExitCode ==
    once =>
        /\ (hist.runs = 1 /\ pc # "run" /\ hist.failed = {} /\ ~hist.errSeen
               /\ doneCh # "closed")
               => CLIRun = <<0>>
        /\ (hist.failed # {} \/ hist.errSeen)
               => (CLIRun # <<>> /\ CLIRun[1] # 0)

\* once mode with two prefixes: one Replicator of the Run has reported done,
\* the other an error, and CLI.Run has returned the code of a Runner error
C16_Witness ==
    /\ once /\ Len(config.Prefixes) = 2
    /\ hist.runs = 1 /\ pc = "exit"
    /\ hist.failed # {} /\ \E i \in Prefixes : hist.last[i].ok
    /\ CLIRun = <<ExitCodeRunnerError>>

\* C14 as stated: when Stop returns, no Replicator of a Run in progress is
\* still at work.
C14_StopWaitsForRun == hist.stopLeft = {}

\* C10 as stated: once Start has received an error from the watcher it has
\* sent it on ErrCh and has returned, and no Run has begun since.
C10_WatcherErrorTerminal ==
    hist.errSeen =>
        /\ "watcher" \in Range(errCh)
        /\ pc = "exit"
        /\ ~hist.runAfterErr

\* C31: with the Gate enabled the maxTimer, once armed, stays at max after the
\* first data event received since the last timer fired: later data events
\* leave it alone.  No time passes beyond that instant while the events wait
\* in the loop, and the Run a timer begins starts no later than it.
C31_MaxBoundsDelay ==
    GateEnabled =>
        /\ (maxTimer # NoTimer /\ hist.firstEvt # NoTimer)
               => maxTimer = {TimeOf(hist.firstEvt) + config.WaitMax}
        /\ (pc = "select" /\ hist.pending /\ hist.firstEvt # NoTimer)
               => now <= TimeOf(hist.firstEvt) + config.WaitMax
        /\ TimerRun => hist.runAt <= TimeOf(hist.runFirst) + config.WaitMax

\* the maxTimer has begun the Run of two data events, max after the first, with
\* the minTimer that the second event started again still to fire
C31_Witness ==
    /\ GateEnabled
    /\ pc = "run" /\ hist.trigger = "maxTimer"
    /\ hist.runEvts >= 2
    /\ TimeOf(hist.runLast) > TimeOf(hist.runFirst)
    /\ hist.runAt = TimeOf(hist.runFirst) + config.WaitMax
    /\ TimeOf(hist.runLast) + config.WaitMin > hist.runAt

\* the steps of the goroutine that executes Start: the once-mode loop, the
\* select statement, and the Run it calls
StartSteps ==
    \/ Start
    \/ OnceReceive
    \/ OnceWatchErr
    \/ SelectDataWait
    \/ SelectDataRun
    \/ SelectMinTimer
    \/ SelectMaxTimer
    \/ SelectWatchErr
    \/ SelectDone
    \/ SelectOnce
    \/ \E i \in Prefixes : Replicate(i)
    \/ RunReturn

\* Stop was called and Start has neither returned nor panicked
StoppedNotReturned == doneCh = "closed" /\ pc \notin {"exit", "panic"}

\* C32: after Stop, Start's loop returns, in daemon and in once mode, also when
\* Stop arrives while the once-mode loop still collects its views.  Stop also
\* stops the watcher, so nothing is published after it: Start returns only if
\* it is never left without a step to take, which is the statement here.
C32_StopReturns == StoppedNotReturned => ENABLED StartSteps

\* Run is called: the step into pc = "run"
RunStarted == pc # "run" /\ pc' = "run"

\* Run returns to Start: its goroutines are gone
RunReturned == pc = "run" /\ pc' # "run" /\ \A i \in Prefixes : rp'[i].pc = "idle"

\* C33: Run starts exactly one Replicator per configured prefix, returns only
\* after each of them has reported exactly one result (done or error), and
\* the error it returns is empty exactly when every Replicator reported done
\* (a non-empty error is what Start sends on ErrCh).
C33_RunCollects ==
    [][/\ RunStarted => \A i \in Prefixes : rp'[i].pc = "self"
       /\ \A i \in Prefixes :
              (pc = "run" /\ rp[i].pc \in {"done", "err"} /\ ~RunReturned)
                  => rp'[i] = rp[i]
       /\ RunReturned =>
              /\ \A i \in Prefixes : rp[i].pc \in {"done", "err"}
              /\ (hist'.failed = {}) <=> (\A i \in Prefixes : rp[i].pc = "done")
              /\ (errCh' # errCh) <=> (hist'.failed # {})]_vars

\* a Run of two Replicators has returned: one had reported done, the other an error
C33_Witness ==
    /\ Len(config.Prefixes) = 2
    /\ pc = "exit"
    /\ hist.failed # {}
    /\ \E i \in Prefixes : hist.last[i].ok
    /\ errCh # <<>>

\* the path contains an excludematch string
HasExcludeMatch(path) ==
    \E n \in DOMAIN config.ExcludeMatches : Contains(path, config.ExcludeMatches[n])

\* C34: a key whose source path contains an excludematch string is never
\* written to the destination, and a destination key whose path, rewritten
\* back to the source namespace, contains an excludematch string is never
\* deleted: no Run issues a PUT or a DELETE of such a key.
C34_ExcludeMatch ==
    \A i \in Prefixes :
        \A n \in DOMAIN hist.ops[i] :
            (/\ hist.ops[i][n].op \in {"PUT", "DELETE"}
             /\ HasPrefix(hist.ops[i][n].key, config.Prefixes[i].Destination))
                => ~HasExcludeMatch(Counterpart(config.Prefixes[i], hist.ops[i][n].key))

\* the half of C34 about writes: no Run issues a PUT for a pair whose source
\* path contains an excludematch string
C34_NoPutOfMatched ==
    \A i \in Prefixes :
        \A n \in DOMAIN hist.ops[i] :
            (/\ hist.ops[i][n].op = "PUT"
             /\ HasPrefix(hist.ops[i][n].key, config.Prefixes[i].Destination))
                => ~HasExcludeMatch(Counterpart(config.Prefixes[i], hist.ops[i][n].key))

\* every poller the watcher has registered has published its first View
AllPublished == \A i \in Prefixes : Registered(i) => view[i].LastIndex > 0

\* C35: in once mode, for every list of prefixes, also one with two prefixes
\* of the same source and datacenter and different destinations, once every
\* registered poller has published its first View the Runner executes its
\* single Run and signals done.  In once mode a poller returns after its first
\* View, so the Run is executed only if the once-mode loop is never left
\* without a step to take, which is the statement here.
C35_OnceRuns ==
    (once /\ pc = "once" /\ doneCh = "open" /\ AllPublished) => ENABLED StartSteps

\* C36: no interleaving of the CLI's signal handling (Stop on the reload and
\* the kill signal) with a Runner makes the Runner send on a DoneCh that is
\* already closed.
C36_NoSendOnClosedDoneCh == pc # "panic"

\* C37: delete reconciliation never deletes a Status Record, also when
\* status_dir lies under the prefix's destination: no Run issues a DELETE of
\* a status path.
C37_StatusRecordNeverDeleted ==
    \A i \in Prefixes :
        \A n \in DOMAIN hist.ops[i] :
            hist.ops[i][n].op = "DELETE" => hist.ops[i][n].key \notin StatusPaths

\* C38: with several prefixes replicated in parallel, the delete
\* reconciliation of one prefix never deletes a destination key that is the
\* rewritten key of a pair in the observed View of another configured prefix,
\* also when one destination is a string prefix of the other.
C38_NoCrossPrefixDelete ==
    \A i \in Prefixes : \A j \in Prefixes \ {i} :
        Observed(j) =>
            \A n \in DOMAIN hist.ops[i] :
                hist.ops[i][n].op = "DELETE"
                    => hist.ops[i][n].key \notin RewrittenKeys(j, LAMBDA m : TRUE)

\* C39: for every prefix and every sequence of Runs of one Runner that starts
\* with no Status Record: whenever the persisted LastReplicated is c, every
\* non-excluded pair with modify index at most c in the View used by the Run
\* that persisted c has been PUT by that Run or an earlier one.  The pairs
\* that were PUT only grow and the record changes only when a Run persists
\* it, so the statement is about the states in which a Run has just persisted.
C39_CheckpointCoversPuts ==
    \A i \in Prefixes :
        RunSucceeded(i) =>
            \A n \in DOMAIN rp[i].pairs :
                (/\ ~HasExcludePrefix(rp[i].pairs[n].Path)
                 /\ rp[i].pairs[n].ModifyIndex <= PersistedIndex(i))
                    => <<rp[i].pairs[n].Path, rp[i].pairs[n].ModifyIndex>> \in hist.put[i]
====
